---- MODULE Spec2Model ----
(***************************************************************************)
(* The TAPI engine of data_structures/src/mainnet_validations.rs: the      *)
(* bit-vote registry (BitTapiCounter), the activation map (wip_activation) *)
(* and the operations update_bit_counter, initialize_wip_information,      *)
(* insert, remove, get, get_mut and contains, with the ActiveWips queries. *)
(*                                                                         *)
(* Epochs are u32 in the source.  TLC's integers are 32-bit signed, so the *)
(* model narrows the type to 31 bits: U32_MAX is the largest value of the  *)
(* narrowed type.  In Spec, SpecInit and SpecInOrder the epochs fed to     *)
(* update_bit_counter are small, so no sum leaves the type; SpecAny feeds  *)
(* it the largest epochs as well and tells with update_bit_counter_aborts  *)
(* which calls divide by zero or overflow.                                 *)
(*                                                                         *)
(* Every caller in the repository registers a WIP name at one bit only     *)
(* (the hardcoded tables and the tests); the proposals offered to insert   *)
(* keep that: a name determines its bit.                                   *)
(*                                                                         *)
(* SpecPure calls the functions that read no engine: the ActiveWips        *)
(* queries, in_emergency_period, the hard-fork gates, and, from            *)
(* data_structures/examples/magic_partition_randomness.rs,                 *)
(* magic_partition_2, magic_partition_3_random and two_thirds_consensus.   *)
(* SpecRestart adds the restart of the node to SpecAny, SpecIncreasing and *)
(* SpecVoted feed update_bit_counter two registered proposals, and         *)
(* SpecPartition calls magic_partition_2 alone.                            *)
(***************************************************************************)
EXTENDS Integers, Sequences, FiniteSets, TLC

VARIABLES
    bit_tapi_counter,   \* TapiEngine.bit_tapi_counter : BitTapiCounter
    wip_activation,     \* TapiEngine.wip_activation : HashMap<String, Epoch>
    log,                \* SpecInOrder only: the bitmap of every block fed to the
                        \* engine so far, by epoch (the block stream of the caller);
                        \* SpecIncreasing only: the avoid_wip_list of every call
                        \* so far, by epoch_to_update
    call                \* SpecPure only: the last call of a function that reads
                        \* no engine: its name, its arguments and its result

vars == <<bit_tapi_counter, wip_activation, log, call>>

----------------------------------------------------------------------------
(* Bounds of the model *)

\* update_bit_counter is called with epoch_to_update in 0..MaxEpoch
MaxEpoch == 5
\* a tally is not driven past MaxVotes by reprocessing an epoch
MaxVotes == 3

----------------------------------------------------------------------------
(* Program constants *)

FIRST_HARD_FORK == 192000
SECOND_HARD_FORK == 376320
U32_MAX == 2147483647
\* [Option<BitVotesCounter>; 32]
InfoLen == 32

Mainnet == "Mainnet"
Testnet == "Testnet"
Development == "Development"
Environment == {Mainnet, Testnet, Development}

----------------------------------------------------------------------------
(* Option<T> *)

None == <<>>
Some(x) == <<x>>

----------------------------------------------------------------------------
(* BitTapiCounter *)

BitTapiCounterDefault ==
    [info |-> [i \in 0..(InfoLen - 1) |-> None],
     last_epoch |-> 0,
     current_length |-> 0]

\* Faulty variant of get: the window is open at init.
get_ExclusiveInit(self, bit, epoch) ==
    IF bit \in DOMAIN self.info /\ self.info[bit] # None
    THEN LET bit_info == self.info[bit][1]
         IN  IF epoch > bit_info.init /\ epoch < bit_info.end
             THEN Some(bit_info) ELSE None
    ELSE None

get(self, bit, epoch) ==
    IF bit \in DOMAIN self.info /\ self.info[bit] # None
    THEN LET bit_info == self.info[bit][1]
         IN  IF epoch >= bit_info.init /\ epoch < bit_info.end
             THEN Some(bit_info) ELSE None
    ELSE None

\* Faulty variant of get_mut: the window is closed at end.
get_mut_InclusiveEnd(self, bit, epoch) ==
    IF bit \in DOMAIN self.info /\ self.info[bit] # None
    THEN LET bit_info == self.info[bit][1]
         IN  IF epoch >= bit_info.init /\ epoch <= bit_info.end
             THEN Some(bit_info) ELSE None
    ELSE None

get_mut(self, bit, epoch) ==
    IF bit \in DOMAIN self.info /\ self.info[bit] # None
    THEN LET bit_info == self.info[bit][1]
         IN  IF epoch >= bit_info.init /\ epoch < bit_info.end
             THEN Some(bit_info) ELSE None
    ELSE None

\* Faulty variant of insert: the bit position is not checked.
insert_Unchecked(self, bit_info) ==
    LET k == bit_info.bit
    IN  [self EXCEPT !.info = [i \in DOMAIN @ |-> IF i = k THEN Some(bit_info) ELSE @[i]],
                     !.current_length =
                         IF k >= self.current_length THEN k + 1 ELSE @]

\* Faulty variant of insert: an occupied slot keeps its occupant.
insert_OnlyIfEmpty(self, bit_info) ==
    LET k == bit_info.bit
    IN  IF k >= InfoLen
        THEN self
        ELSE IF self.info[k] # None
        THEN self
        ELSE [self EXCEPT !.info[k] = Some(bit_info),
                          !.current_length =
                              IF k >= self.current_length THEN k + 1 ELSE @]

insert(self, bit_info) ==
    LET k == bit_info.bit
    IN  IF k >= InfoLen
        THEN self
        ELSE [self EXCEPT !.info[k] = Some(bit_info),
                          !.current_length =
                              IF k >= self.current_length THEN k + 1 ELSE @]

\* for bit_info in self.info.iter().flatten() { length = bit_info.bit + 1; }
RECURSIVE LastLength(_, _, _)
LastLength(info, i, length) ==
    IF i >= InfoLen THEN length
    ELSE LastLength(info, i + 1,
                    IF info[i] # None THEN info[i][1].bit + 1 ELSE length)

\* Faulty variant of update_current_length: the occupied slots are counted.
update_current_length_CountsSlots(self) ==
    [self EXCEPT !.current_length =
        Cardinality({i \in DOMAIN self.info : self.info[i] # None})]

update_current_length(self) ==
    [self EXCEPT !.current_length = LastLength(self.info, 0, 0)]

remove(self, bit) ==
    IF bit >= InfoLen
    THEN self
    ELSE LET cleared == [self EXCEPT !.info[bit] = None]
         IN  IF bit + 1 = self.current_length
             THEN update_current_length(cleared)
             ELSE cleared

\* Faulty variant of contains: the comparison of the names is inverted.
contains_OtherName(self, bit, wip) ==
    IF bit \in DOMAIN self.info /\ self.info[bit] # None
    THEN self.info[bit][1].wip # wip
    ELSE FALSE

contains(self, bit, wip) ==
    IF bit \in DOMAIN self.info /\ self.info[bit] # None
    THEN self.info[bit][1].wip = wip
    ELSE FALSE

len(self) == self.current_length

is_empty(self) == self.current_length = 0

\* Faulty variant of is_bit_n_activated: v >> n != 0, the higher bits are not
\* masked off.
is_bit_n_activated_NoMask(v, n) == v \div (2 ^ n) # 0

\* v & (1 << n) != 0
is_bit_n_activated(v, n) == (v \div (2 ^ n)) % 2 # 0

----------------------------------------------------------------------------
(* HashMap<String, Epoch> *)

EmptyMap == [x \in {} |-> 0]

\* no function has been called yet
NoCall == [fn |-> "none"]

contains_key(map, k) == k \in DOMAIN map

\* Faulty variant of map_insert: the map is emptied before the entry is stored.
map_insert_Alone(map, k, val) == [x \in {k} |-> val]

map_insert(map, k, val) ==
    [x \in DOMAIN map \cup {k} |-> IF x = k THEN val ELSE map[x]]

----------------------------------------------------------------------------
(* TapiEngine::update_bit_counter *)

TapiEngine(btc, act) == [bit_tapi_counter |-> btc, wip_activation |-> act]

\* Faulty variant of NeedsBackfill: the first call of an engine backfills too.
NeedsBackfill_AlsoFirstTime(last_epoch, epoch_to_update) ==
    epoch_to_update > last_epoch + 1

\* Faulty variant of NeedsBackfill: the skipped epochs are never processed.
NeedsBackfill_Never(last_epoch, epoch_to_update) == FALSE

\* the guard of the backfill branch
NeedsBackfill(last_epoch, epoch_to_update) ==
    last_epoch # 0 /\ epoch_to_update > last_epoch + 1

\* Faulty variant of IsAccounted: the contains_key test is dropped, so an
\* activated WIP keeps being counted.
IsAccounted_IgnoresActivation(act, avoid_wip_list, wip) ==
    wip \notin avoid_wip_list

\* Faulty variant of IsAccounted: the avoid_wip_list test is dropped, so a
\* suppressed WIP keeps being counted.
IsAccounted_IgnoresAvoidList(act, avoid_wip_list, wip) ==
    ~contains_key(act, wip)

\* a WIP is accounted only while it is neither activated nor in avoid_wip_list
IsAccounted(act, avoid_wip_list, wip) ==
    ~contains_key(act, wip) /\ wip \notin avoid_wip_list

\* Faulty variant of IsCountingEpoch: the periods are counted from epoch 0
\* instead of from init.
IsCountingEpoch_IgnoresInit(epoch_to_update, bit_counter) ==
    epoch_to_update % bit_counter.period = 0

IsCountingEpoch(epoch_to_update, bit_counter) ==
    (epoch_to_update - bit_counter.init) % bit_counter.period = 0

ReachesThreshold(votes, period) ==
    (votes * 100) \div period >= 80

\* Faulty variant of ActivationEpoch: the offset is one epoch short.
ActivationEpoch_OneShort(block_epoch) == block_epoch + 20

ActivationEpoch(block_epoch) == block_epoch + 21

\* Faulty variant of UpdateSlot: the tally is evaluated before the vote of the
\* block is added to it.
UpdateSlot_EvaluatesBeforeVote(self, n, v, epoch_to_update, block_epoch, avoid_wip_list) ==
    LET got == get_mut(self.bit_tapi_counter, n, epoch_to_update)
    IN  IF got = None THEN self
        ELSE
        LET bit_counter == got[1]
        IN  IF ~IsAccounted(self.wip_activation, avoid_wip_list, bit_counter.wip)
            THEN self
            ELSE
            LET votes1 == IF is_bit_n_activated(v, n)
                          THEN bit_counter.votes + 1 ELSE bit_counter.votes
                counting == IsCountingEpoch(epoch_to_update, bit_counter)
                act1 == IF counting
                           /\ ReachesThreshold(bit_counter.votes, bit_counter.period)
                        THEN map_insert(self.wip_activation, bit_counter.wip,
                                        ActivationEpoch(block_epoch))
                        ELSE self.wip_activation
                votes2 == IF counting THEN 0 ELSE votes1
            IN  TapiEngine(
                    [self.bit_tapi_counter EXCEPT
                        !.info[n] = Some([bit_counter EXCEPT !.votes = votes2])],
                    act1)

\* Faulty variant of UpdateSlot: at a counting epoch the tally is evaluated and
\* reset first, and the vote of the block opens the next period.
UpdateSlot_ResetsBeforeVote(self, n, v, epoch_to_update, block_epoch, avoid_wip_list) ==
    LET got == get_mut(self.bit_tapi_counter, n, epoch_to_update)
    IN  IF got = None THEN self
        ELSE
        LET bit_counter == got[1]
        IN  IF ~IsAccounted(self.wip_activation, avoid_wip_list, bit_counter.wip)
            THEN self
            ELSE
            LET counting == IsCountingEpoch(epoch_to_update, bit_counter)
                act1 == IF counting
                           /\ ReachesThreshold(bit_counter.votes, bit_counter.period)
                        THEN map_insert(self.wip_activation, bit_counter.wip,
                                        ActivationEpoch(block_epoch))
                        ELSE self.wip_activation
                votes1 == IF counting THEN 0 ELSE bit_counter.votes
                votes2 == IF is_bit_n_activated(v, n) THEN votes1 + 1 ELSE votes1
            IN  TapiEngine(
                    [self.bit_tapi_counter EXCEPT
                        !.info[n] = Some([bit_counter EXCEPT !.votes = votes2])],
                    act1)

\* the body of the loop over n
UpdateSlot(self, n, v, epoch_to_update, block_epoch, avoid_wip_list) ==
    LET got == get_mut(self.bit_tapi_counter, n, epoch_to_update)
    IN  IF got = None THEN self
        ELSE
        LET bit_counter == got[1]
        IN  IF ~IsAccounted(self.wip_activation, avoid_wip_list, bit_counter.wip)
            THEN self
            ELSE
            LET votes1 == IF is_bit_n_activated(v, n)
                          THEN bit_counter.votes + 1 ELSE bit_counter.votes
                counting == IsCountingEpoch(epoch_to_update, bit_counter)
                act1 == IF counting /\ ReachesThreshold(votes1, bit_counter.period)
                        THEN map_insert(self.wip_activation, bit_counter.wip,
                                        ActivationEpoch(block_epoch))
                        ELSE self.wip_activation
                votes2 == IF counting THEN 0 ELSE votes1
            IN  TapiEngine(
                    [self.bit_tapi_counter EXCEPT
                        !.info[n] = Some([bit_counter EXCEPT !.votes = votes2])],
                    act1)

\* for n in 0..self.bit_tapi_counter.len()
RECURSIVE UpdateSlots(_, _, _, _, _, _, _)
UpdateSlots(self, n, length, v, epoch_to_update, block_epoch, avoid_wip_list) ==
    IF n >= length THEN self
    ELSE UpdateSlots(
            UpdateSlot(self, n, v, epoch_to_update, block_epoch, avoid_wip_list),
            n + 1, length, v, epoch_to_update, block_epoch, avoid_wip_list)

RECURSIVE update_bit_counter(_, _, _, _, _)

\* Faulty variant of BackfillCall: the skipped epochs are fed the bitmap of the
\* block instead of 0.
BackfillCall_PassesBitmap(self, v, i, block_epoch, avoid_wip_list) ==
    update_bit_counter(self, v, i, block_epoch, avoid_wip_list)

\* Faulty variant of BackfillCall: the skipped epochs are fed their own epoch as
\* block_epoch.
BackfillCall_OwnBlockEpoch(self, v, i, block_epoch, avoid_wip_list) ==
    update_bit_counter(self, 0, i, i, avoid_wip_list)

\* self.update_bit_counter(0, i, block_epoch, avoid_wip_list)
BackfillCall(self, v, i, block_epoch, avoid_wip_list) ==
    update_bit_counter(self, 0, i, block_epoch, avoid_wip_list)

\* for i in init..end
RECURSIVE Backfill(_, _, _, _, _, _)
Backfill(self, v, i, end, block_epoch, avoid_wip_list) ==
    IF i >= end THEN self
    ELSE Backfill(BackfillCall(self, v, i, block_epoch, avoid_wip_list),
                  v, i + 1, end, block_epoch, avoid_wip_list)

\* Faulty variant of update_bit_counter: last_epoch is set to block_epoch.
update_bit_counter_StoresBlockEpoch(self, v, epoch_to_update, block_epoch, avoid_wip_list) ==
    LET last_epoch == self.bit_tapi_counter.last_epoch
        filled == IF NeedsBackfill(last_epoch, epoch_to_update)
                  THEN Backfill(self, v, last_epoch + 1, epoch_to_update,
                                block_epoch, avoid_wip_list)
                  ELSE self
        counted == UpdateSlots(filled, 0, len(filled.bit_tapi_counter), v,
                               epoch_to_update, block_epoch, avoid_wip_list)
    IN  [counted EXCEPT !.bit_tapi_counter.last_epoch = block_epoch]

\* Faulty variant of update_bit_counter: an epoch that was already processed
\* is not processed again.
update_bit_counter_SkipsProcessed(self, v, epoch_to_update, block_epoch, avoid_wip_list) ==
    LET last_epoch == self.bit_tapi_counter.last_epoch
        filled == IF NeedsBackfill(last_epoch, epoch_to_update)
                  THEN Backfill(self, v, last_epoch + 1, epoch_to_update,
                                block_epoch, avoid_wip_list)
                  ELSE self
        counted == UpdateSlots(filled, 0, len(filled.bit_tapi_counter), v,
                               epoch_to_update, block_epoch, avoid_wip_list)
    IN  IF last_epoch # 0 /\ epoch_to_update <= last_epoch
        THEN self
        ELSE [counted EXCEPT !.bit_tapi_counter.last_epoch = epoch_to_update]

\* Faulty variant of update_bit_counter: it returns at once when the registry is
\* empty.
update_bit_counter_SkipsEmpty(self, v, epoch_to_update, block_epoch, avoid_wip_list) ==
    LET last_epoch == self.bit_tapi_counter.last_epoch
        filled == IF NeedsBackfill(last_epoch, epoch_to_update)
                  THEN Backfill(self, v, last_epoch + 1, epoch_to_update,
                                block_epoch, avoid_wip_list)
                  ELSE self
        counted == UpdateSlots(filled, 0, len(filled.bit_tapi_counter), v,
                               epoch_to_update, block_epoch, avoid_wip_list)
    IN  IF is_empty(self.bit_tapi_counter)
        THEN self
        ELSE [counted EXCEPT !.bit_tapi_counter.last_epoch = epoch_to_update]

update_bit_counter(self, v, epoch_to_update, block_epoch, avoid_wip_list) ==
    LET last_epoch == self.bit_tapi_counter.last_epoch
        filled == IF NeedsBackfill(last_epoch, epoch_to_update)
                  THEN Backfill(self, v, last_epoch + 1, epoch_to_update,
                                block_epoch, avoid_wip_list)
                  ELSE self
        counted == UpdateSlots(filled, 0, len(filled.bit_tapi_counter), v,
                               epoch_to_update, block_epoch, avoid_wip_list)
    IN  [counted EXCEPT !.bit_tapi_counter.last_epoch = epoch_to_update]

----------------------------------------------------------------------------
(* The calls of update_bit_counter that one call makes: itself at depth 0,   *)
(* and the calls of its backfill loop, each with the calls it makes in turn, *)
(* one level deeper, in the order in which they process their epoch.         *)

RECURSIVE update_bit_counter_calls(_, _, _, _, _, _)

\* for i in init..end, from the engine self
RECURSIVE BackfillCalls(_, _, _, _, _, _)
BackfillCalls(self, i, end, block_epoch, avoid_wip_list, depth) ==
    IF i >= end THEN <<>>
    ELSE update_bit_counter_calls(self, 0, i, block_epoch, avoid_wip_list, depth)
         \o BackfillCalls(BackfillCall(self, 0, i, block_epoch, avoid_wip_list),
                          i + 1, end, block_epoch, avoid_wip_list, depth)

update_bit_counter_calls(self, v, epoch_to_update, block_epoch, avoid_wip_list, depth) ==
    LET last_epoch == self.bit_tapi_counter.last_epoch
    IN  (IF NeedsBackfill(last_epoch, epoch_to_update)
         THEN BackfillCalls(self, last_epoch + 1, epoch_to_update, block_epoch,
                            avoid_wip_list, depth + 1)
         ELSE <<>>)
        \o << [v |-> v, epoch_to_update |-> epoch_to_update,
               block_epoch |-> block_epoch, avoid_wip_list |-> avoid_wip_list,
               depth |-> depth] >>

----------------------------------------------------------------------------
(* The arithmetic of update_bit_counter.  A division by zero panics in every *)
(* build; an overflowing sum or product of u32 panics in a build with        *)
(* overflow checks and wraps in the others.  update_bit_counter_aborts tells *)
(* whether a call meets one of them, in the order the code evaluates them.   *)

\* a + b leaves the type
AddOverflows(a, b) == a > U32_MAX - b

\* a * b leaves the type
MulOverflows(a, b) == b # 0 /\ a > U32_MAX \div b

\* the body of the loop over n: votes += 1, % period, votes * 100 and
\* block_epoch + 21
UpdateSlotAborts(self, n, v, epoch_to_update, block_epoch, avoid_wip_list) ==
    LET got == get_mut(self.bit_tapi_counter, n, epoch_to_update)
    IN  /\ got # None
        /\ IsAccounted(self.wip_activation, avoid_wip_list, got[1].wip)
        /\ LET bit_counter == got[1]
               voted == is_bit_n_activated(v, n)
               votes1 == IF voted THEN bit_counter.votes + 1 ELSE bit_counter.votes
           IN  \/ voted /\ AddOverflows(bit_counter.votes, 1)
               \/ bit_counter.period = 0
               \/ /\ IsCountingEpoch(epoch_to_update, bit_counter)
                  /\ \/ MulOverflows(votes1, 100)
                     \/ /\ ReachesThreshold(votes1, bit_counter.period)
                        /\ AddOverflows(block_epoch, 21)

RECURSIVE UpdateSlotsAbort(_, _, _, _, _, _, _)
UpdateSlotsAbort(self, n, length, v, epoch_to_update, block_epoch, avoid_wip_list) ==
    /\ n < length
    /\ \/ UpdateSlotAborts(self, n, v, epoch_to_update, block_epoch, avoid_wip_list)
       \/ UpdateSlotsAbort(
              UpdateSlot(self, n, v, epoch_to_update, block_epoch, avoid_wip_list),
              n + 1, length, v, epoch_to_update, block_epoch, avoid_wip_list)

RECURSIVE update_bit_counter_aborts(_, _, _, _, _)

RECURSIVE BackfillAborts(_, _, _, _, _, _)
BackfillAborts(self, v, i, end, block_epoch, avoid_wip_list) ==
    /\ i < end
    /\ \/ update_bit_counter_aborts(self, 0, i, block_epoch, avoid_wip_list)
       \/ BackfillAborts(BackfillCall(self, v, i, block_epoch, avoid_wip_list),
                         v, i + 1, end, block_epoch, avoid_wip_list)

update_bit_counter_aborts(self, v, epoch_to_update, block_epoch, avoid_wip_list) ==
    LET last_epoch == self.bit_tapi_counter.last_epoch
        filled == IF NeedsBackfill(last_epoch, epoch_to_update)
                  THEN Backfill(self, v, last_epoch + 1, epoch_to_update,
                                block_epoch, avoid_wip_list)
                  ELSE self
    IN  \/ last_epoch # 0 /\ AddOverflows(last_epoch, 1)
        \/ /\ NeedsBackfill(last_epoch, epoch_to_update)
           /\ BackfillAborts(self, v, last_epoch + 1, epoch_to_update,
                             block_epoch, avoid_wip_list)
        \/ UpdateSlotsAbort(filled, 0, len(filled.bit_tapi_counter), v,
                            epoch_to_update, block_epoch, avoid_wip_list)

----------------------------------------------------------------------------
(* TapiEngine::initialize_wip_information *)

\* Faulty variant of HardcodedActivation: the map is rebuilt from the hardcoded
\* entries instead of inserting them into the existing map.
HardcodedActivation_Rebuilds(act, environment) ==
    IF environment = Mainnet
    THEN map_insert(map_insert(EmptyMap, "WIP0008", FIRST_HARD_FORK),
                    "WIP0009-0011-0012", SECOND_HARD_FORK)
    ELSE map_insert(map_insert(EmptyMap, "WIP0008", U32_MAX),
                    "WIP0009-0011-0012", U32_MAX)

\* Faulty variant of HardcodedActivation: the non-mainnet arm leaves out the
\* second entry.
HardcodedActivation_NonMainnetOmits(act, environment) ==
    IF environment = Mainnet
    THEN map_insert(map_insert(act, "WIP0008", FIRST_HARD_FORK),
                    "WIP0009-0011-0012", SECOND_HARD_FORK)
    ELSE map_insert(act, "WIP0008", U32_MAX)

\* the hardcoded activation entries of the environment
HardcodedActivation(act, environment) ==
    IF environment = Mainnet
    THEN map_insert(map_insert(act, "WIP0008", FIRST_HARD_FORK),
                    "WIP0009-0011-0012", SECOND_HARD_FORK)
    ELSE map_insert(map_insert(act, "WIP0008", U32_MAX),
                    "WIP0009-0011-0012", U32_MAX)

\* voting_wips: the hardcoded proposals in vote processing, by bit
VotingWips(environment) ==
    [i \in 0..(InfoLen - 1) |->
        IF i # 0 THEN None
        ELSE IF environment = Mainnet
        THEN Some([votes |-> 0, period |-> 26880, wip |-> "WIP0014",
                   init |-> 500000, end |-> U32_MAX, bit |-> 0])
        ELSE Some([votes |-> 0, period |-> 120, wip |-> "WIP0014",
                   init |-> 5200, end |-> U32_MAX, bit |-> 0])]

\* Faulty variant of AssessWip: a WIP that is already registered is recorded in
\* old_wips and registered again with the hardcoded values.
AssessWip_InsertsAgain(acc, voting_wips, i) ==
    IF voting_wips[i] # None
    THEN LET wip == voting_wips[i][1]
         IN  IF contains(acc.btc, i, wip.wip)
             THEN [acc EXCEPT !.old_wips = @ \cup {wip.wip},
                              !.btc = insert(@, wip)]
             ELSE [acc EXCEPT
                     !.min_epoch = IF wip.init < @ THEN wip.init ELSE @,
                     !.btc = insert(@, wip)]
    ELSE [acc EXCEPT !.btc = remove(@, i)]

\* Faulty variant of AssessWip: a registered WIP is recognised by its bit alone.
AssessWip_AnyNameIsOld(acc, voting_wips, i) ==
    IF voting_wips[i] # None
    THEN LET wip == voting_wips[i][1]
         IN  IF acc.btc.info[i] # None
             THEN [acc EXCEPT !.old_wips = @ \cup {wip.wip}]
             ELSE [acc EXCEPT
                     !.min_epoch = IF wip.init < @ THEN wip.init ELSE @,
                     !.btc = insert(@, wip)]
    ELSE [acc EXCEPT !.btc = remove(@, i)]

\* Faulty variant of AssessWip: a bit without a hardcoded proposal is left as
\* it is.
AssessWip_KeepsUnlisted(acc, voting_wips, i) ==
    IF voting_wips[i] # None
    THEN LET wip == voting_wips[i][1]
         IN  IF contains(acc.btc, i, wip.wip)
             THEN [acc EXCEPT !.old_wips = @ \cup {wip.wip}]
             ELSE [acc EXCEPT
                     !.min_epoch = IF wip.init < @ THEN wip.init ELSE @,
                     !.btc = insert(@, wip)]
    ELSE acc

\* the body of the assessment loop; acc = [btc, min_epoch, old_wips]
AssessWip(acc, voting_wips, i) ==
    IF voting_wips[i] # None
    THEN LET wip == voting_wips[i][1]
         IN  IF contains(acc.btc, i, wip.wip)
             THEN [acc EXCEPT !.old_wips = @ \cup {wip.wip}]
             ELSE [acc EXCEPT
                     !.min_epoch = IF wip.init < @ THEN wip.init ELSE @,
                     !.btc = insert(@, wip)]
    ELSE [acc EXCEPT !.btc = remove(@, i)]

\* for (i, wip) in voting_wips.into_iter().enumerate()
\* (comparing next with acc makes TLC compute next before the next round, which
\* keeps its evaluation stack short; both branches continue from next)
RECURSIVE AssessWips(_, _, _)
AssessWips(acc, voting_wips, i) ==
    IF i >= InfoLen THEN acc
    ELSE LET next == AssessWip(acc, voting_wips, i)
         IN  IF next = acc
             THEN AssessWips(acc, voting_wips, i + 1)
             ELSE AssessWips(next, voting_wips, i + 1)

\* returns the engine and the pair (min_epoch, old_wips)
initialize_wip_information(self, environment) ==
    LET acc == AssessWips([btc |-> self.bit_tapi_counter,
                           min_epoch |-> U32_MAX,
                           old_wips |-> {}],
                          VotingWips(environment), 0)
    IN  [engine |-> TapiEngine(acc.btc,
                               HardcodedActivation(self.wip_activation, environment)),
         min_epoch |-> acc.min_epoch,
         old_wips |-> acc.old_wips]

----------------------------------------------------------------------------
(* TapiEngine::in_voting_range *)

\* Faulty variant of in_voting_range: a WIP that is already activated is no
\* longer reported.
in_voting_range_SkipsActivated(self, epoch, wip) ==
    \E i \in 0..(len(self.bit_tapi_counter) - 1) :
        LET got == get(self.bit_tapi_counter, i, epoch)
        IN  /\ got # None
            /\ got[1].wip = wip
            /\ ~contains_key(self.wip_activation, wip)

\* the loop returns true at the first i whose active proposal has the name
in_voting_range(self, epoch, wip) ==
    \E i \in 0..(len(self.bit_tapi_counter) - 1) :
        LET got == get(self.bit_tapi_counter, i, epoch)
        IN  got # None /\ got[1].wip = wip

----------------------------------------------------------------------------
(* ActiveWips *)

ActiveWips(active_wips, block_epoch) ==
    [active_wips |-> active_wips, block_epoch |-> block_epoch]

wip_0008(self) ==
    IF contains_key(self.active_wips, "WIP0008")
    THEN self.block_epoch >= self.active_wips["WIP0008"]
    ELSE FALSE

\* Faulty variant of wips_0009_0011_0012: it reads the entry of WIP0008.
wips_0009_0011_0012_ReadsWIP0008(self) ==
    IF contains_key(self.active_wips, "WIP0008")
    THEN self.block_epoch >= self.active_wips["WIP0008"]
    ELSE FALSE

wips_0009_0011_0012(self) ==
    IF contains_key(self.active_wips, "WIP0009-0011-0012")
    THEN self.block_epoch >= self.active_wips["WIP0009-0011-0012"]
    ELSE FALSE

wip0014(self) ==
    IF contains_key(self.active_wips, "WIP0014")
    THEN self.block_epoch >= self.active_wips["WIP0014"]
    ELSE FALSE

----------------------------------------------------------------------------
(* in_emergency_period and the hard-fork gates *)

FIRST_EMERGENCY_COMMITTEE ==
    << "wit1asdpcspwysf0hg5kgwvgsp2h6g65y5kg9gj5dz",
       "wit13l337znc5yuualnxfg9s2hu9txylntq5pyazty",
       "wit17nnjuxmfuu92l6rxhque2qc3u2kvmx2fske4l9",
       "wit1drcpu0xc2akfcqn8r69vw70pj8fzjhjypdcfsq",
       "wit1cyrlc64hyu0rux7hclmg9rxwxpa0v9pevyaj2c",
       "wit1g0rkajsgwqux9rnmkfca5tz6djg0f87x7ms5qx",
       "wit1etherz02v4fvqty6jhdawefd0pl33qtevy7s4z" >>

\* address.parse(): the PublicKeyHash of a well-formed address (the seven
\* hardcoded ones are taken to be well-formed, as the tests take them)
PublicKeyHash(address) == [pkh |-> address]

\* Faulty variant of in_emergency_period: the bounds belong to the period.
in_emergency_period_InclusiveBounds(superblock_index, environment) ==
    IF Mainnet = environment /\ superblock_index >= 750 /\ superblock_index <= 1344
    THEN Some([i \in DOMAIN FIRST_EMERGENCY_COMMITTEE |->
                  PublicKeyHash(FIRST_EMERGENCY_COMMITTEE[i])])
    ELSE None

in_emergency_period(superblock_index, environment) ==
    IF Mainnet = environment /\ superblock_index > 750 /\ superblock_index < 1344
    THEN Some([i \in DOMAIN FIRST_EMERGENCY_COMMITTEE |->
                  PublicKeyHash(FIRST_EMERGENCY_COMMITTEE[i])])
    ELSE None

after_first_hard_fork(epoch, environment) ==
    IF environment = Mainnet THEN epoch >= FIRST_HARD_FORK ELSE FALSE

\* Faulty variant of after_second_hard_fork: it compares with the first hard
\* fork.
after_second_hard_fork_FirstDate(epoch, environment) ==
    IF environment = Mainnet THEN epoch >= FIRST_HARD_FORK ELSE FALSE

after_second_hard_fork(epoch, environment) ==
    IF environment = Mainnet THEN epoch >= SECOND_HARD_FORK ELSE FALSE

----------------------------------------------------------------------------
(* two_thirds_consensus (witnet_data_structures::superblock), called by      *)
(* test_magic_partition_2_consensus.  Its code is not among the sources: the *)
(* operator is the contract of meets_supermajority in the specification.     *)

\* Faulty variant of meets_supermajority: exactly two thirds is not enough.
meets_supermajority_Strict(votes, committee_size) ==
    votes * 3 > committee_size * 2

\* Faulty variant of meets_supermajority: two thirds of the committee, rounded
\* down, is enough.
meets_supermajority_RoundsDown(votes, committee_size) ==
    votes >= (committee_size * 2) \div 3

meets_supermajority(votes, committee_size) ==
    votes * 3 >= committee_size * 2

----------------------------------------------------------------------------
(* magic_partition_2 and magic_partition_3_random.  Pcg64 and SliceRandom::choose_multiple are     *)
(* code of the rand crates: the generator is modelled as a linear            *)
(* congruential one and the index sampling as the in-place partial shuffle   *)
(* of amount = min(size, len) rounds, which choose_multiple documents        *)
(* (amount elements without repetition, fewer when the slice is shorter).    *)

\* the result of a call: a value, or a panic
Ok(x) == [panic |-> FALSE, value |-> x]
Panic == [panic |-> TRUE]

\* Faulty variant of partition_loop: the step is the byte itself, not reduced
\* below each.
RECURSIVE partition_loop_WholeByte(_, _, _, _, _, _, _)
partition_loop_WholeByte(v, each, rand_distribution, a, step_index, k, size) ==
    IF k = size THEN <<>>
    ELSE LET step == rand_distribution[step_index + 1]
             b == (a + step) % Len(v)
         IN  <<v[b + 1]>> \o
             partition_loop_WholeByte(v, each, rand_distribution,
                                      (a + each) % Len(v),
                                      (step_index + 1) % Len(rand_distribution),
                                      k + 1, size)

\* the loop of magic_partition_2 from its k-th round on (0-based a and
\* step_index, as in the code)
RECURSIVE partition_loop(_, _, _, _, _, _, _)
partition_loop(v, each, rand_distribution, a, step_index, k, size) ==
    IF k = size THEN <<>>
    ELSE LET step == rand_distribution[step_index + 1] % each
             b == (a + step) % Len(v)
         IN  <<v[b + 1]>> \o
             partition_loop(v, each, rand_distribution, (a + each) % Len(v),
                            (step_index + 1) % Len(rand_distribution),
                            k + 1, size)

magic_partition_2(v, first, size, rand_distribution) ==
    IF first >= Len(v) THEN Ok(<<>>)
    ELSE IF ~(size <= Len(v)) THEN Panic              \* assert!
    ELSE IF size = 0 THEN Panic                       \* v.len() / 0
    ELSE IF Len(rand_distribution) = 0 THEN Panic     \* rand_distribution[0]
    ELSE Ok(partition_loop(v, Len(v) \div size, rand_distribution, first, 0,
                           0, size))

\* [u8; 32], the seed of Pcg64
SeedLen == 32

\* the generator of the model: x -> (x * RngMultiplier + RngIncrement) % RngModulus
RngModulus == 251
RngMultiplier == 37
RngIncrement == 11

RECURSIVE SeedSum(_, _)
SeedSum(seed, i) ==
    IF i > Len(seed) THEN 0
    ELSE (seed[i] * i + SeedSum(seed, i + 1)) % RngModulus

\* Pcg64::from_seed
from_seed(seed) == SeedSum(seed, 1)

next_state(rng) == (rng * RngMultiplier + RngIncrement) % RngModulus

\* rng.gen_range(low, high)
gen_range(rng, low, high) == low + (rng % (high - low))

\* the indices 1..n of a slice of length n, in order
RECURSIVE identity_indices(_)
identity_indices(n) ==
    IF n = 0 THEN <<>> ELSE Append(identity_indices(n - 1), n)

swap(indices, i, j) ==
    [indices EXCEPT ![i] = indices[j], ![j] = indices[i]]

\* rounds i..amount of the partial shuffle of indices (1-based positions)
RECURSIVE sample_inplace(_, _, _, _)
sample_inplace(rng, indices, i, amount) ==
    IF i > amount THEN SubSeq(indices, 1, amount)
    ELSE sample_inplace(next_state(rng),
                        swap(indices, i, gen_range(rng, i, Len(indices) + 1)),
                        i + 1, amount)

\* Faulty variant of choose_multiple: every element is drawn from the whole
\* slice, with repetition.
choose_multiple_WithRepetition(v, rng, size) ==
    LET amount == IF size < Len(v) THEN size ELSE Len(v)
        RECURSIVE Draw(_, _)
        Draw(r, i) ==
            IF i > amount THEN <<>>
            ELSE <<v[gen_range(r, 1, Len(v) + 1)]>> \o Draw(next_state(r), i + 1)
    IN  Draw(rng, 1)

\* v.choose_multiple(&mut rng, size).cloned().collect()
choose_multiple(v, rng, size) ==
    LET amount == IF size < Len(v) THEN size ELSE Len(v)
        indices == sample_inplace(rng, identity_indices(Len(v)), 1, amount)
    IN  [k \in 1..amount |-> v[indices[k]]]

magic_partition_3_random(v, first, size, rand_distribution) ==
    IF Len(rand_distribution) # SeedLen
    THEN Panic
    ELSE Ok(choose_multiple(v, from_seed(rand_distribution), size))

----------------------------------------------------------------------------
(* The inputs of the operations *)

\* the proposals offered to insert (votes start at 0, as in every caller)
Wips ==
    { [votes |-> 0, period |-> 2, wip |-> "test0", init |-> 2, end |-> 5, bit |-> 0],
      [votes |-> 0, period |-> 3, wip |-> "test1", init |-> 1, end |-> 9, bit |-> 1],
      [votes |-> 0, period |-> 2, wip |-> "test32", init |-> 0, end |-> 9,
       bit |-> InfoLen] }

Bits == {0, 1, InfoLen}

Bitmaps == {0, 1, 2, 3}

Epochs == 0..MaxEpoch

\* block_epoch: the epoch being updated, or the epoch of another block
BlockEpochs(e) == {e, 1}

AvoidLists == {{}, {"test0"}}

\* the argument lists of update_bit_counter
UpdateCalls ==
    { c \in [v : Bitmaps, epoch_to_update : Epochs, block_epoch : Epochs,
             avoid_wip_list : AvoidLists] :
        c.block_epoch \in BlockEpochs(c.epoch_to_update) }

----------------------------------------------------------------------------
(* The state machine: any operation at any time *)

Engine == TapiEngine(bit_tapi_counter, wip_activation)

\* the engine after update_bit_counter with the arguments c
Updated(c) ==
    update_bit_counter(Engine, c.v, c.epoch_to_update, c.block_epoch,
                       c.avoid_wip_list)

\* TapiEngine::default()
Init ==
    /\ bit_tapi_counter = BitTapiCounterDefault
    /\ wip_activation = EmptyMap
    /\ log = EmptyMap
    /\ call = NoCall

Register(w) ==
    /\ bit_tapi_counter' = insert(bit_tapi_counter, w)
    /\ UNCHANGED <<wip_activation, log, call>>

Unregister(bit) ==
    /\ bit_tapi_counter' = remove(bit_tapi_counter, bit)
    /\ UNCHANGED <<wip_activation, log, call>>

Initialize(environment) ==
    LET r == initialize_wip_information(Engine, environment)
    IN  /\ bit_tapi_counter' = r.engine.bit_tapi_counter
        /\ wip_activation' = r.engine.wip_activation
        /\ UNCHANGED <<log, call>>

\* every tally of the registry is at most MaxVotes
TallyWithin(btc) ==
    \A i \in 0..(InfoLen - 1) :
        btc.info[i] # None => btc.info[i][1].votes <= MaxVotes

Update(c) ==
    LET r == Updated(c)
    IN  /\ TallyWithin(r.bit_tapi_counter)
        /\ bit_tapi_counter' = r.bit_tapi_counter
        /\ wip_activation' = r.wip_activation
        /\ UNCHANGED <<log, call>>

\* the engine of the update tests: default(), insert, remove, update_bit_counter
Next ==
    \/ \E w \in Wips : Register(w)
    \/ \E bit \in Bits : Unregister(bit)
    \/ \E c \in UpdateCalls : Update(c)

Spec == Init /\ [][Next]_vars

\* the same with initialize_wip_information, called at any time (every start of
\* the node calls it on the engine it loaded)
NextInit ==
    \/ \E w \in Wips : Register(w)
    \/ \E bit \in Bits : Unregister(bit)
    \/ \E c \in UpdateCalls : Update(c)
    \/ \E environment \in Environment : Initialize(environment)

SpecInit == Init /\ [][NextInit]_vars

----------------------------------------------------------------------------
(* The state machine of a block stream processed in order: two proposals     *)
(* registered as in test_update_bit_counter_multi_vote, every block's        *)
(* bitmap fed once at its own epoch, epochs strictly increasing (gaps are    *)
(* allowed), nothing suppressed.                                             *)

InOrderWip0 ==
    [votes |-> 0, period |-> 5, wip |-> "test0", init |-> 0, end |-> 9, bit |-> 0]
InOrderWip1 ==
    [votes |-> 0, period |-> 2, wip |-> "test1", init |-> 1, end |-> 6, bit |-> 1]

InOrderBitmaps == {0, 1, 3}

InOrderEpochs == 1..(MaxEpoch + 1)

InitInOrder ==
    /\ bit_tapi_counter =
          insert(insert(BitTapiCounterDefault, InOrderWip0), InOrderWip1)
    /\ wip_activation = EmptyMap
    /\ log = EmptyMap
    /\ call = NoCall

InOrderUpdate(v, e) ==
    LET r == update_bit_counter(Engine, v, e, e, {})
    IN  /\ e > bit_tapi_counter.last_epoch
        /\ bit_tapi_counter' = r.bit_tapi_counter
        /\ wip_activation' = r.wip_activation
        /\ log' = map_insert(log, e, v)
        /\ UNCHANGED call

NextInOrder ==
    \E v \in InOrderBitmaps, e \in InOrderEpochs : InOrderUpdate(v, e)

SpecInOrder == InitInOrder /\ [][NextInOrder]_vars

----------------------------------------------------------------------------
(* The state machine of update_bit_counter called with strictly increasing   *)
(* epochs, gaps allowed, any bitmap and any avoid_wip_list in each call, on  *)
(* two proposals registered with no votes.                                   *)

IncreasingWip0 ==
    [votes |-> 0, period |-> 2, wip |-> "test0", init |-> 1, end |-> 9, bit |-> 0]
IncreasingWip1 ==
    [votes |-> 0, period |-> 3, wip |-> "test1", init |-> 0, end |-> 8, bit |-> 1]

IncreasingBitmaps == {0, 1, 3}

IncreasingEpochs == 0..(MaxEpoch + 1)

IncreasingAvoidLists == {{}, {"test0"}}

InitIncreasing ==
    /\ bit_tapi_counter =
          insert(insert(BitTapiCounterDefault, IncreasingWip0), IncreasingWip1)
    /\ wip_activation = EmptyMap
    /\ log = EmptyMap
    /\ call = NoCall

\* epoch_to_update is above every epoch passed so far
IncreasingUpdate(v, e, avoid_wip_list) ==
    LET r == update_bit_counter(Engine, v, e, e, avoid_wip_list)
    IN  /\ \A e0 \in DOMAIN log : e > e0
        /\ bit_tapi_counter' = r.bit_tapi_counter
        /\ wip_activation' = r.wip_activation
        /\ log' = map_insert(log, e, avoid_wip_list)
        /\ UNCHANGED call

NextIncreasing ==
    \E v \in IncreasingBitmaps, e \in IncreasingEpochs,
       avoid_wip_list \in IncreasingAvoidLists :
        IncreasingUpdate(v, e, avoid_wip_list)

SpecIncreasing == InitIncreasing /\ [][NextIncreasing]_vars

----------------------------------------------------------------------------
(* The state machine of the vote on WIP0014, with the period and the window  *)
(* of the hardcoded proposal scaled down so that a period fits the bounds:   *)
(* update_bit_counter is called with any epoch of the bounds, and the block  *)
(* epoch is the epoch of any block.                                          *)

VotedWip0014 ==
    [votes |-> 0, period |-> 2, wip |-> "WIP0014", init |-> 1, end |-> 9, bit |-> 0]
VotedWip1 ==
    [votes |-> 0, period |-> 3, wip |-> "test1", init |-> 0, end |-> 8, bit |-> 1]

VotedBlockEpochs == {0, 1, 40, 5200, 500000}

VotedCalls ==
    [v : Bitmaps, epoch_to_update : Epochs, block_epoch : VotedBlockEpochs,
     avoid_wip_list : {{}}]

InitVoted ==
    /\ bit_tapi_counter =
          insert(insert(BitTapiCounterDefault, VotedWip0014), VotedWip1)
    /\ wip_activation = EmptyMap
    /\ log = EmptyMap
    /\ call = NoCall

NextVoted == \E c \in VotedCalls : Update(c)

SpecVoted == InitVoted /\ [][NextVoted]_vars

----------------------------------------------------------------------------
(* The state machine of an engine whose bit table is not the hardcoded one:  *)
(* insert takes any BitVotesCounter (all its fields are public), and         *)
(* update_bit_counter any u32 epochs.  A call is followed only when it meets *)
(* no division by zero and no overflow.                                      *)

\* the largest tally whose product with 100 stays in the type
MaxTallyTimes100 == U32_MAX \div 100

AnyWips ==
    { [votes |-> 0, period |-> 0, wip |-> "test0", init |-> 1, end |-> 3, bit |-> 0],
      [votes |-> 0, period |-> 1, wip |-> "test1", init |-> 0, end |-> U32_MAX,
       bit |-> 1],
      [votes |-> MaxTallyTimes100, period |-> 3, wip |-> "test2", init |-> 0,
       end |-> 3, bit |-> 2] }

AnyBitmaps == {0, 1, 2, 4}

AnyEpochs == {0, 1, 2, U32_MAX - 1, U32_MAX}

\* a call backfills at most MaxGap epochs
MaxGap == 2

AnyCalls ==
    [v : AnyBitmaps, epoch_to_update : AnyEpochs, block_epoch : {1, U32_MAX},
     avoid_wip_list : {{}}]

\* the call c backfills at most MaxGap epochs from the current state
GapWithin(c) ==
    bit_tapi_counter.last_epoch # 0 =>
        c.epoch_to_update - bit_tapi_counter.last_epoch <= MaxGap + 1

\* the call c meets a division by zero or an overflow
Aborts(c) ==
    update_bit_counter_aborts(Engine, c.v, c.epoch_to_update, c.block_epoch,
                              c.avoid_wip_list)

\* a tally is at most MaxVotes above the tally its proposal was registered with
AnyTallyWithin(btc) ==
    \A i \in 0..(InfoLen - 1) :
        btc.info[i] # None =>
            \/ btc.info[i][1].votes <= MaxVotes
            \/ /\ btc.info[i][1].votes >= MaxTallyTimes100
               /\ btc.info[i][1].votes <= MaxTallyTimes100 + MaxVotes

AnyUpdate(c) ==
    /\ GapWithin(c)
    /\ ~Aborts(c)
    /\ AnyTallyWithin(Updated(c).bit_tapi_counter)
    /\ bit_tapi_counter' = Updated(c).bit_tapi_counter
    /\ wip_activation' = Updated(c).wip_activation
    /\ UNCHANGED <<log, call>>

NextAny ==
    \/ \E w \in AnyWips : Register(w)
    \/ \E environment \in Environment : Initialize(environment)
    \/ \E c \in AnyCalls : AnyUpdate(c)

SpecAny == Init /\ [][NextAny]_vars

----------------------------------------------------------------------------
(* The state machine of the registry alone, as in test_bit_tapi_counter and  *)
(* test_bit_tapi_counter_invalid_bit: default(), then insert and remove in   *)
(* any order, at valid and invalid bits, two names competing for a bit.      *)

RegistryWips ==
    { [votes |-> 0, period |-> 2, wip |-> "Wip1", init |-> 0, end |-> 2, bit |-> 0],
      [votes |-> 1, period |-> 3, wip |-> "Wip2", init |-> 1, end |-> 3, bit |-> 0],
      [votes |-> 0, period |-> 2, wip |-> "Wip3", init |-> 2, end |-> 4, bit |-> 1],
      [votes |-> 2, period |-> 4, wip |-> "Wip4", init |-> 0, end |-> 1, bit |-> 1],
      [votes |-> 0, period |-> 2, wip |-> "Wip5", init |-> 1, end |-> 2, bit |-> 2],
      [votes |-> 0, period |-> 2, wip |-> "Wip6", init |-> 0, end |-> 4, bit |-> 3],
      [votes |-> 0, period |-> 2, wip |-> "Wip7", init |-> 3, end |-> 4,
       bit |-> InfoLen - 2],
      [votes |-> 0, period |-> 2, wip |-> "Wip8", init |-> 0, end |-> 3,
       bit |-> InfoLen - 1],
      [votes |-> 0, period |-> 2, wip |-> "Wip1", init |-> 0, end |-> 2,
       bit |-> InfoLen],
      [votes |-> 0, period |-> 2, wip |-> "Wip9", init |-> 0, end |-> 2,
       bit |-> InfoLen + 1] }

RegistryBits == {0, 1, 2, 3, InfoLen - 2, InfoLen - 1, InfoLen, InfoLen + 1}

\* the epochs asked of get and get_mut
RegistryEpochs == 0..4

NextRegistry ==
    \/ \E w \in RegistryWips : Register(w)
    \/ \E bit \in RegistryBits : Unregister(bit)

SpecRegistry == Init /\ [][NextRegistry]_vars

----------------------------------------------------------------------------
(* The state machine of the functions that read no engine: every step is one *)
(* call, with arguments drawn from the sets below, recorded with its result. *)

\* ActiveWips::active_wips
SnapshotNames == {"WIP0008", "WIP0009-0011-0012", "WIP0014"}
SnapshotEpochs == {0, FIRST_HARD_FORK}
Snapshots ==
    UNION { [names -> SnapshotEpochs] : names \in SUBSET SnapshotNames }
\* ActiveWips::block_epoch
SnapshotBlockEpochs == {0, FIRST_HARD_FORK - 1, FIRST_HARD_FORK, U32_MAX}

SuperblockIndices ==
    {0, 50, 749, 750, 751, 800, 1300, 1343, 1344, 1345, U32_MAX}

GateEpochs ==
    {0, FIRST_HARD_FORK - 1, FIRST_HARD_FORK, FIRST_HARD_FORK + 1,
     SECOND_HARD_FORK - 1, SECOND_HARD_FORK, SECOND_HARD_FORK + 1, U32_MAX}

Tallies == 0..12 \cup {32, 33, 34, 50}
CommitteeSizes == 1..12 \cup {50}

Populations ==
    { <<>>, <<10>>, <<10, 20, 30>>, <<50, 40, 30, 20, 10>>, <<10, 10, 20>> }
SampleSizes == 0..6
Firsts == {0, 2, 7}
\* rand_distribution: slices of 32 bytes, and two of another length
Seeds ==
    { [i \in 1..SeedLen |-> (i * k) % 256] : k \in {0, 1, 7, 100} }
        \cup { <<>>, <<1, 2, 3>> }

Call_wip_0008(active_wips, block_epoch) ==
    /\ call' = [fn |-> "wip_0008", active_wips |-> active_wips,
                block_epoch |-> block_epoch,
                result |-> wip_0008(ActiveWips(active_wips, block_epoch))]
    /\ UNCHANGED <<bit_tapi_counter, wip_activation, log>>

Call_wips_0009_0011_0012(active_wips, block_epoch) ==
    /\ call' = [fn |-> "wips_0009_0011_0012", active_wips |-> active_wips,
                block_epoch |-> block_epoch,
                result |-> wips_0009_0011_0012(ActiveWips(active_wips, block_epoch))]
    /\ UNCHANGED <<bit_tapi_counter, wip_activation, log>>

Call_wip0014(active_wips, block_epoch) ==
    /\ call' = [fn |-> "wip0014", active_wips |-> active_wips,
                block_epoch |-> block_epoch,
                result |-> wip0014(ActiveWips(active_wips, block_epoch))]
    /\ UNCHANGED <<bit_tapi_counter, wip_activation, log>>

Call_in_emergency_period(superblock_index, environment) ==
    /\ call' = [fn |-> "in_emergency_period",
                superblock_index |-> superblock_index,
                environment |-> environment,
                result |-> in_emergency_period(superblock_index, environment)]
    /\ UNCHANGED <<bit_tapi_counter, wip_activation, log>>

Call_after_first_hard_fork(epoch, environment) ==
    /\ call' = [fn |-> "after_first_hard_fork", epoch |-> epoch,
                environment |-> environment,
                result |-> after_first_hard_fork(epoch, environment)]
    /\ UNCHANGED <<bit_tapi_counter, wip_activation, log>>

Call_after_second_hard_fork(epoch, environment) ==
    /\ call' = [fn |-> "after_second_hard_fork", epoch |-> epoch,
                environment |-> environment,
                result |-> after_second_hard_fork(epoch, environment)]
    /\ UNCHANGED <<bit_tapi_counter, wip_activation, log>>

Call_meets_supermajority(votes, committee_size) ==
    /\ call' = [fn |-> "meets_supermajority", votes |-> votes,
                committee_size |-> committee_size,
                result |-> meets_supermajority(votes, committee_size)]
    /\ UNCHANGED <<bit_tapi_counter, wip_activation, log>>

Call_magic_partition_2(v, first, size, rand_distribution) ==
    /\ call' = [fn |-> "magic_partition_2", v |-> v, first |-> first,
                size |-> size, rand_distribution |-> rand_distribution,
                result |-> magic_partition_2(v, first, size, rand_distribution)]
    /\ UNCHANGED <<bit_tapi_counter, wip_activation, log>>

Call_magic_partition_3_random(v, first, size, rand_distribution) ==
    /\ call' = [fn |-> "magic_partition_3_random", v |-> v, first |-> first,
                size |-> size, rand_distribution |-> rand_distribution,
                result |-> magic_partition_3_random(v, first, size,
                                                    rand_distribution)]
    /\ UNCHANGED <<bit_tapi_counter, wip_activation, log>>

NextPure ==
    \/ \E a \in Snapshots, b \in SnapshotBlockEpochs : Call_wip_0008(a, b)
    \/ \E a \in Snapshots, b \in SnapshotBlockEpochs : Call_wips_0009_0011_0012(a, b)
    \/ \E a \in Snapshots, b \in SnapshotBlockEpochs : Call_wip0014(a, b)
    \/ \E i \in SuperblockIndices, e \in Environment : Call_in_emergency_period(i, e)
    \/ \E x \in GateEpochs, e \in Environment : Call_after_first_hard_fork(x, e)
    \/ \E x \in GateEpochs, e \in Environment : Call_after_second_hard_fork(x, e)
    \/ \E n \in Tallies, c \in CommitteeSizes : Call_meets_supermajority(n, c)
    \/ \E v \in Populations, f \in Firsts, n \in SampleSizes, r \in Seeds :
          Call_magic_partition_2(v, f, n, r)
    \/ \E v \in Populations, f \in Firsts, n \in SampleSizes, r \in Seeds :
          Call_magic_partition_3_random(v, f, n, r)

SpecPure == Init /\ [][NextPure]_vars

----------------------------------------------------------------------------
(* Persisting and restoring the engine.  TapiEngine, BitTapiCounter and      *)
(* BitVotesCounter derive Serialize and Deserialize with no field attribute: *)
(* the derived code writes every field of a struct in the order of its       *)
(* declaration, an Option as a tag followed by its content, the array slot   *)
(* by slot and the HashMap as its collection of (key, value) pairs, and      *)
(* reads them back the same way.                                             *)

\* Faulty variant of SerializeCounter: the tally is skipped and restored as its
\* default.
SerializeCounter_SkipsVotes(c) == <<0, c.period, c.wip, c.init, c.end, c.bit>>

\* BitVotesCounter: votes, period, wip, init, end, bit
SerializeCounter(c) == <<c.votes, c.period, c.wip, c.init, c.end, c.bit>>

DeserializeCounter(s) ==
    [votes |-> s[1], period |-> s[2], wip |-> s[3], init |-> s[4],
     end |-> s[5], bit |-> s[6]]

\* Option<BitVotesCounter>
SerializeOption(o) ==
    IF o = None THEN <<0>> ELSE <<1, SerializeCounter(o[1])>>

DeserializeOption(s) ==
    IF s[1] = 0 THEN None ELSE Some(DeserializeCounter(s[2]))

\* BitTapiCounter: info, last_epoch, current_length
SerializeRegistry(btc) ==
    << [i \in 1..InfoLen |-> SerializeOption(btc.info[i - 1])],
       btc.last_epoch, btc.current_length >>

DeserializeRegistry(s) ==
    [info |-> [i \in 0..(InfoLen - 1) |-> DeserializeOption(s[1][i + 1])],
     last_epoch |-> s[2], current_length |-> s[3]]

\* HashMap<String, Epoch>: its pairs, in no order
SerializeMap(map) == { <<k, map[k]>> : k \in DOMAIN map }

DeserializeMap(pairs) ==
    [k \in { p[1] : p \in pairs } |-> (CHOOSE p \in pairs : p[1] = k)[2]]

\* TapiEngine: bit_tapi_counter, wip_activation
Serialize(self) ==
    << SerializeRegistry(self.bit_tapi_counter),
       SerializeMap(self.wip_activation) >>

Deserialize(s) == TapiEngine(DeserializeRegistry(s[1]), DeserializeMap(s[2]))

\* the engine loaded from the persisted form of self
Restored(self) == Deserialize(Serialize(self))

----------------------------------------------------------------------------
(* The state machine of SpecAny with restarts: at any time the engine is     *)
(* persisted, dropped and loaded back.                                       *)

Restart ==
    /\ bit_tapi_counter' = Restored(Engine).bit_tapi_counter
    /\ wip_activation' = Restored(Engine).wip_activation
    /\ UNCHANGED <<log, call>>

NextRestart ==
    \/ \E w \in AnyWips : Register(w)
    \/ \E environment \in Environment : Initialize(environment)
    \/ \E c \in AnyCalls : AnyUpdate(c)
    \/ Restart

SpecRestart == Init /\ [][NextRestart]_vars

----------------------------------------------------------------------------
(* The state machine of the calls of magic_partition_2 alone, on the slice   *)
(* of the comment above it and on others, with short byte slices.            *)

PartitionPopulations ==
    { <<>>, <<7>>, <<10, 20, 30>>, <<0, 1, 2, 3, 4>>, <<0, 1, 2, 3, 4, 5>>,
      <<5, 5, 6, 6>> }
PartitionFirsts == {0, 2, 3, 5, 7}
PartitionSizes == 0..7
PartitionBytes == { <<>>, <<0>>, <<1>>, <<3, 1, 2>>, <<255, 4>> }

NextPartition ==
    \E v \in PartitionPopulations, f \in PartitionFirsts, n \in PartitionSizes,
       r \in PartitionBytes :
        Call_magic_partition_2(v, f, n, r)

SpecPartition == Init /\ [][NextPartition]_vars

----------------------------------------------------------------------------
(* Vocabulary of the properties *)

Slots == 0..(InfoLen - 1)

Occupied(n) == bit_tapi_counter.info[n] # None

\* the proposal in slot n
Proposal(n) == bit_tapi_counter.info[n][1]

LastEpoch == bit_tapi_counter.last_epoch

\* epoch lies in the voting window [init, end) of proposal p
Voting(p, epoch) == p.init <= epoch /\ epoch < p.end

\* epoch is a period boundary of proposal p
Boundary(p, epoch) == (epoch - p.init) % p.period = 0

\* bit n of the bitmap v
BitSet(v, n) == (v \div (2 ^ n)) % 2 = 1

\* a tally of votes out of period reaches 80%
EightyPercent(votes, period) == votes * 100 >= 80 * period

\* the call c fills a gap: a prior epoch was processed and c skips epochs
HasGap(c) == LastEpoch # 0 /\ c.epoch_to_update > LastEpoch + 1

\* the epochs the call c backfills
Skipped(c) ==
    IF HasGap(c) THEN (LastEpoch + 1)..(c.epoch_to_update - 1) ELSE {}

\* the names initialize_wip_information writes into the activation map
HardcodedNames == {"WIP0008", "WIP0009-0011-0012"}

----------------------------------------------------------------------------
(* C1 *)

\* C1: activation is write-once under update: in every reachable state, whatever
\* the arguments of update_bit_counter, every entry name -> e of the activation
\* map is still there, with the same epoch, after the call.
WriteOnceUnderUpdate ==
    \A c \in UpdateCalls :
        LET after == Updated(c).wip_activation
        IN  \A name \in DOMAIN wip_activation :
                name \in DOMAIN after /\ after[name] = wip_activation[name]

\* an activated proposal is still registered and an update gives it a yes-vote
\* at a period boundary of its window, with another block epoch than the one
\* that activated it
ActivatedAndVotedAgain ==
    \E c \in UpdateCalls, n \in Slots :
        /\ Occupied(n)
        /\ Proposal(n).wip \in DOMAIN wip_activation
        /\ c.avoid_wip_list = {}
        /\ Voting(Proposal(n), c.epoch_to_update)
        /\ Boundary(Proposal(n), c.epoch_to_update)
        /\ BitSet(c.v, n)
        /\ wip_activation[Proposal(n).wip] # c.block_epoch + 21
        /\ Updated(c).wip_activation = wip_activation

----------------------------------------------------------------------------
(* C2 *)

\* the step is a call of initialize_wip_information that stores epoch for name
InitializeWrites(name, epoch) ==
    \E environment \in Environment :
        /\ Initialize(environment)
        /\ epoch = HardcodedActivation(EmptyMap, environment)[name]

\* C2 as stated: no operation of the engine (insert, remove, update_bit_counter,
\* initialize_wip_information with any environment) changes the epoch stored for
\* a name once it is written.
NoEntryEverOverwritten ==
    [][\A name \in DOMAIN wip_activation :
          /\ name \in DOMAIN wip_activation'
          /\ wip_activation'[name] = wip_activation[name]]_vars

\* C2 as amended: no operation removes an entry; the epoch stored for a name
\* changes only when the name is one of the two hardcoded ones and the step is
\* initialize_wip_information, which rewrites both to the constants of its
\* environment.
OnlyInitializeRewritesHardcoded ==
    [][\A name \in DOMAIN wip_activation :
          /\ name \in DOMAIN wip_activation'
          /\ wip_activation'[name] # wip_activation[name] =>
                /\ name \in HardcodedNames
                /\ InitializeWrites(name, wip_activation'[name])]_vars

\* a voted activation entry exists and initialize_wip_information, called for
\* another environment than before, rewrites the hardcoded entries next to it
VotedEntryAndReinitialize ==
    \E environment \in Environment :
        LET r == initialize_wip_information(Engine, environment).engine
        IN  /\ DOMAIN wip_activation \ HardcodedNames # {}
            /\ HardcodedNames \subseteq DOMAIN wip_activation
            /\ r.wip_activation # wip_activation
            /\ \A name \in DOMAIN wip_activation \ HardcodedNames :
                  r.wip_activation[name] = wip_activation[name]

----------------------------------------------------------------------------
(* C3 *)

\* the calls update(0, i, i, S) for i = from .. epoch_to_update - 1 and then
\* update(v, epoch_to_update, epoch_to_update, S), one after the other, each
\* with its own epoch as block epoch
RECURSIVE SequentialCalls(_, _, _)
SequentialCalls(self, from, c) ==
    IF from >= c.epoch_to_update
    THEN update_bit_counter(self, c.v, c.epoch_to_update, c.epoch_to_update,
                            c.avoid_wip_list)
    ELSE SequentialCalls(
            update_bit_counter(self, 0, from, from, c.avoid_wip_list),
            from + 1, c)

\* C3: gap backfill equivalence: when last_epoch = L is not 0 and
\* epoch_to_update = e > L + 1, the single call update(v, e, b, S) leaves the
\* registry (slots, tallies, last_epoch, occupied span) as the sequential calls
\* update(0, L+1, ., S), ..., update(0, e-1, ., S), update(v, e, ., S) leave it.
GapBackfillEquivalence ==
    \A c \in UpdateCalls :
        HasGap(c) =>
            Updated(c).bit_tapi_counter =
                SequentialCalls(Engine, LastEpoch + 1, c).bit_tapi_counter

\* a call jumps over a period boundary of an accounted proposal that holds
\* votes, with a yes-vote for it in the bitmap: the backfill resets the tally
GapOverBoundaryWithVotes ==
    \E c \in UpdateCalls, n \in Slots :
        /\ HasGap(c)
        /\ Occupied(n)
        /\ Proposal(n).votes > 0
        /\ Proposal(n).wip \notin DOMAIN wip_activation
        /\ Proposal(n).wip \notin c.avoid_wip_list
        /\ BitSet(c.v, n)
        /\ Voting(Proposal(n), c.epoch_to_update)
        /\ \E r \in Skipped(c) : Voting(Proposal(n), r) /\ Boundary(Proposal(n), r)
        /\ Updated(c).bit_tapi_counter.info[n][1].votes < Proposal(n).votes

----------------------------------------------------------------------------
(* C4 *)

\* C4: the period-boundary step.  In a call that backfills nothing, for a
\* proposal that is active at epoch_to_update, not suppressed and not activated:
\* at a period boundary the call writes name -> block_epoch + 21 if and only if
\* votes * 100 / period >= 80 (the yes-vote of the call included), and sets
\* votes to 0 either way; at any other epoch it writes no entry for the name and
\* does not reset votes.
PeriodBoundaryStep ==
    \A c \in UpdateCalls, n \in Slots :
        (/\ ~HasGap(c)
         /\ Occupied(n)
         /\ Voting(Proposal(n), c.epoch_to_update)
         /\ Proposal(n).wip \notin c.avoid_wip_list
         /\ Proposal(n).wip \notin DOMAIN wip_activation)
        =>
        LET p == Proposal(n)
            after == Updated(c)
            tally == p.votes + (IF BitSet(c.v, n) THEN 1 ELSE 0)
            written == p.wip \in DOMAIN after.wip_activation
        IN  IF Boundary(p, c.epoch_to_update)
            THEN /\ written <=> (tally * 100) \div p.period >= 80
                 /\ written => after.wip_activation[p.wip] = c.block_epoch + 21
                 /\ after.bit_tapi_counter.info[n][1].votes = 0
            ELSE /\ ~written
                 /\ after.bit_tapi_counter.info[n][1].votes = tally

\* a call at a period boundary finds the tally, its own yes-vote included, at
\* 80% or more and activates the proposal with the block epoch of another block
BoundaryStepActivates ==
    \E c \in UpdateCalls, n \in Slots :
        /\ ~HasGap(c)
        /\ Occupied(n)
        /\ Voting(Proposal(n), c.epoch_to_update)
        /\ Boundary(Proposal(n), c.epoch_to_update)
        /\ Proposal(n).wip \notin c.avoid_wip_list
        /\ Proposal(n).wip \notin DOMAIN wip_activation
        /\ Proposal(n).votes > 0
        /\ BitSet(c.v, n)
        /\ c.block_epoch # c.epoch_to_update
        /\ Proposal(n).wip \in DOMAIN Updated(c).wip_activation
        /\ Updated(c).wip_activation[Proposal(n).wip] = c.block_epoch + 21
        /\ Updated(c).bit_tapi_counter.info[n][1].votes = 0

----------------------------------------------------------------------------
(* C5 *)

\* the epochs of the period ending at the boundary r in which the block stream
\* voted yes on bit n
YesEpochs(n, r) ==
    { x \in DOMAIN log :
        /\ r - Proposal(n).period < x /\ x <= r
        /\ Voting(Proposal(n), x)
        /\ BitSet(log[x], n) }

\* the period of slot n ending at the boundary r gathered yes-votes in at least
\* 80% of its epochs
PeriodWon(n, r) ==
    /\ Voting(Proposal(n), r)
    /\ Boundary(Proposal(n), r)
    /\ EightyPercent(Cardinality(YesEpochs(n, r)), Proposal(n).period)

\* C5: end-to-end activation.  In a block stream processed in order with nothing
\* suppressed, when the block at a rollover epoch r has just been processed
\* (block_epoch = r) and the period ending at r is the first in which the
\* proposal got yes-votes in at least 80% of the epochs, then votes is 0 and the
\* activation map holds name -> r + 21; this holds for every slot, so also for
\* several proposals crossing the threshold in the same update.
EndToEndActivation ==
    \A n \in Slots :
        (/\ Occupied(n)
         /\ LastEpoch \in DOMAIN log
         /\ PeriodWon(n, LastEpoch)
         /\ \A r \in 0..(LastEpoch - 1) : ~PeriodWon(n, r))
        =>
        /\ Proposal(n).votes = 0
        /\ Proposal(n).wip \in DOMAIN wip_activation
        /\ wip_activation[Proposal(n).wip] = LastEpoch + 21

\* both proposals cross the threshold at the same rollover epoch, one of them
\* with exactly 80% of the period's epochs
BothActivatedAtRollover ==
    /\ LastEpoch \in DOMAIN log
    /\ \A n \in {0, 1} :
          /\ Occupied(n)
          /\ PeriodWon(n, LastEpoch)
          /\ \A r \in 0..(LastEpoch - 1) : ~PeriodWon(n, r)
          /\ Proposal(n).votes = 0
          /\ Proposal(n).wip \in DOMAIN wip_activation
          /\ wip_activation[Proposal(n).wip] = LastEpoch + 21
    /\ Cardinality(YesEpochs(0, LastEpoch)) * 100 = 80 * Proposal(0).period

----------------------------------------------------------------------------
(* C6 *)

\* C6: activation across a block gap.  When a call backfills a period boundary
\* of a proposal that is not suppressed and not activated, and the tally held
\* before the call reaches 80% (votes * 100 / period >= 80), the activation
\* entry written is the block_epoch of that call plus 21, whatever the boundary
\* epoch is, and votes is 0 after the call.
ActivationAcrossGap ==
    \A c \in UpdateCalls, n \in Slots :
        (/\ HasGap(c)
         /\ Occupied(n)
         /\ Proposal(n).wip \notin c.avoid_wip_list
         /\ Proposal(n).wip \notin DOMAIN wip_activation
         /\ \E r \in Skipped(c) : Voting(Proposal(n), r) /\ Boundary(Proposal(n), r)
         /\ (Proposal(n).votes * 100) \div Proposal(n).period >= 80)
        =>
        LET after == Updated(c)
        IN  /\ Proposal(n).wip \in DOMAIN after.wip_activation
            /\ after.wip_activation[Proposal(n).wip] = c.block_epoch + 21
            /\ after.bit_tapi_counter.info[n][1].votes = 0

\* a call closes a gap over the boundary at which a tally of 80% or more is due;
\* no skipped epoch is the block epoch of the call
GapClosingCallActivates ==
    \E c \in UpdateCalls, n \in Slots :
        /\ HasGap(c)
        /\ Occupied(n)
        /\ Proposal(n).wip \notin c.avoid_wip_list
        /\ Proposal(n).wip \notin DOMAIN wip_activation
        /\ \E r \in Skipped(c) : Voting(Proposal(n), r) /\ Boundary(Proposal(n), r)
        /\ (Proposal(n).votes * 100) \div Proposal(n).period >= 80
        /\ c.block_epoch \notin Skipped(c)
        /\ Updated(c).wip_activation[Proposal(n).wip] = c.block_epoch + 21

----------------------------------------------------------------------------
(* C7 *)

\* C7 as stated: whatever epoch_to_update is, last_epoch after the call is
\* greater than or equal to last_epoch before it.
LastEpochNeverDecreases ==
    \A c \in UpdateCalls :
        Updated(c).bit_tapi_counter.last_epoch >= LastEpoch

\* C7 as amended: last_epoch does not decrease in a call whose epoch_to_update
\* is not below the current last_epoch.
LastEpochMonotoneForNewEpochs ==
    \A c \in UpdateCalls :
        c.epoch_to_update >= LastEpoch =>
            Updated(c).bit_tapi_counter.last_epoch >= LastEpoch

\* an epoch has been processed and a call for a later epoch comes with the block
\* epoch of an earlier block
LaterEpochEarlierBlock ==
    \E c \in UpdateCalls :
        /\ LastEpoch > 1
        /\ c.epoch_to_update > LastEpoch
        /\ c.block_epoch < LastEpoch
        /\ Updated(c).bit_tapi_counter.last_epoch > LastEpoch

----------------------------------------------------------------------------
(* C8 *)

\* C8: after every call update(v, e, b, S), last_epoch is e, also when the
\* registry is empty, when no proposal is active at e and when every proposal
\* is suppressed or activated.
LastEpochIsEpochToUpdate ==
    \A c \in UpdateCalls :
        Updated(c).bit_tapi_counter.last_epoch = c.epoch_to_update

\* the registry is empty and a call for another epoch than last_epoch moves
\* last_epoch
UpdateOnEmptyRegistry ==
    \E c \in UpdateCalls :
        /\ is_empty(bit_tapi_counter)
        /\ \A n \in Slots : ~Occupied(n)
        /\ LastEpoch # 0
        /\ c.epoch_to_update # LastEpoch
        /\ Updated(c).bit_tapi_counter.last_epoch = c.epoch_to_update

----------------------------------------------------------------------------
(* C9 *)

\* the call c leaves the tally of slot n and the activation entry of its
\* proposal as they are
Untouched(c, n) ==
    LET after == Updated(c)
        name == Proposal(n).wip
    IN  /\ after.bit_tapi_counter.info[n] = bit_tapi_counter.info[n]
        /\ name \in DOMAIN after.wip_activation <=> name \in DOMAIN wip_activation
        /\ name \in DOMAIN wip_activation =>
              after.wip_activation[name] = wip_activation[name]

\* C9 as stated: a call whose epoch_to_update is outside the window [init, end)
\* of a proposal leaves its votes unchanged and writes no activation entry for
\* it, whatever the bitmap.
OutsideWindowUntouched ==
    \A c \in UpdateCalls, n \in Slots :
        (Occupied(n) /\ ~Voting(Proposal(n), c.epoch_to_update))
            => Untouched(c, n)

\* C9 as amended: the same for a call that, besides, backfills no epoch of the
\* window.
OutsideWindowNoBackfillUntouched ==
    \A c \in UpdateCalls, n \in Slots :
        (/\ Occupied(n)
         /\ ~Voting(Proposal(n), c.epoch_to_update)
         /\ \A i \in Skipped(c) : ~Voting(Proposal(n), i))
        => Untouched(c, n)

\* a proposal holds votes and a call with a yes-vote for it comes at its end
\* epoch, right after the last epoch of its window
YesVoteAtEndEpoch ==
    \E c \in UpdateCalls, n \in Slots :
        /\ Occupied(n)
        /\ Proposal(n).votes > 0
        /\ Proposal(n).wip \notin DOMAIN wip_activation
        /\ c.avoid_wip_list = {}
        /\ c.epoch_to_update = Proposal(n).end
        /\ LastEpoch = Proposal(n).end - 1
        /\ BitSet(c.v, n)
        /\ Untouched(c, n)

----------------------------------------------------------------------------
(* C10 *)

\* slot n holds a proposal that the call c accounts: active at epoch_to_update,
\* not suppressed, not activated
Accounted(c, n) ==
    /\ Occupied(n)
    /\ Voting(Proposal(n), c.epoch_to_update)
    /\ Proposal(n).wip \notin c.avoid_wip_list
    /\ Proposal(n).wip \notin DOMAIN wip_activation

\* C10: bit-to-proposal matching.  In a call that backfills nothing, an
\* accounted proposal in slot n gets exactly one vote if bit n of the bitmap is
\* set and none otherwise (at a period boundary the tally is then reset to 0);
\* every other slot is left as it is; and two bitmaps that agree on the bits of
\* the accounted slots give the same engine, so that the bits of unoccupied or
\* inactive slots are ignored.
BitToProposalMatching ==
    \A c \in UpdateCalls :
        ~HasGap(c) =>
            /\ \A n \in Slots :
                  IF Accounted(c, n)
                  THEN Updated(c).bit_tapi_counter.info[n][1].votes =
                          IF Boundary(Proposal(n), c.epoch_to_update) THEN 0
                          ELSE Proposal(n).votes + (IF BitSet(c.v, n) THEN 1 ELSE 0)
                  ELSE Updated(c).bit_tapi_counter.info[n] =
                          bit_tapi_counter.info[n]
            /\ \A v2 \in Bitmaps :
                  (\A n \in Slots : Accounted(c, n) => (BitSet(v2, n) <=> BitSet(c.v, n)))
                      => Updated([c EXCEPT !.v = v2]) = Updated(c)

\* only slot 0 is accounted, the bitmap sets bit 1 and not bit 0, and the call
\* is not at a period boundary: no tally moves
VoteForUnaccountedBitOnly ==
    \E c \in UpdateCalls :
        /\ ~HasGap(c)
        /\ Accounted(c, 0)
        /\ ~Accounted(c, 1)
        /\ ~Boundary(Proposal(0), c.epoch_to_update)
        /\ c.v = 2
        /\ Updated(c).bit_tapi_counter.info = bit_tapi_counter.info

----------------------------------------------------------------------------
(* C11 *)

\* C11: no accounting once activated or suppressed.  For a registered proposal
\* whose name is in the avoid_wip_list of the call or already in the activation
\* map, update_bit_counter (its backfill included) leaves the votes as they are,
\* neither incremented nor reset, and writes no activation entry for the name,
\* also at a period boundary.
NoAccountingOnceActivatedOrSuppressed ==
    \A c \in UpdateCalls, n \in Slots :
        (/\ Occupied(n)
         /\ \/ Proposal(n).wip \in c.avoid_wip_list
            \/ Proposal(n).wip \in DOMAIN wip_activation)
        => Untouched(c, n)

\* a suppressed proposal that is not activated holds votes, and a call with a
\* yes-vote for it comes at a period boundary of its window where the tally would
\* reach 80%
SuppressedAtWinningBoundary ==
    \E c \in UpdateCalls, n \in Slots :
        /\ Occupied(n)
        /\ Proposal(n).wip \in c.avoid_wip_list
        /\ Proposal(n).wip \notin DOMAIN wip_activation
        /\ Voting(Proposal(n), c.epoch_to_update)
        /\ Boundary(Proposal(n), c.epoch_to_update)
        /\ BitSet(c.v, n)
        /\ Proposal(n).votes > 0
        /\ ((Proposal(n).votes + 1) * 100) \div Proposal(n).period >= 80
        /\ Untouched(c, n)

----------------------------------------------------------------------------
(* C12 *)

\* C12: update_bit_counter never aborts block processing: in every state reached
\* through insert, initialize_wip_information and update_bit_counter, and for
\* every bitmap, epoch_to_update and block_epoch, the call completes with no
\* division by zero on a registered period and no overflow of last_epoch + 1,
\* block_epoch + 21 or votes * 100.
UpdateNeverAborts ==
    \A c \in AnyCalls : GapWithin(c) => ~Aborts(c)

----------------------------------------------------------------------------
(* C13 *)

\* the occupied slots of a registry
OccupiedSlots(btc) == {i \in DOMAIN btc.info : btc.info[i] # None}

\* one plus the highest occupied slot of a registry, 0 when none is occupied
OccupiedSpan(btc) ==
    IF OccupiedSlots(btc) = {} THEN 0
    ELSE (CHOOSE i \in OccupiedSlots(btc) :
              \A j \in OccupiedSlots(btc) : j <= i) + 1

\* C13: after any sequence of insert and remove calls, at valid and invalid
\* bits, len() is one plus the highest occupied slot, or 0 when no slot is
\* occupied; so removing the only occupied bit gives 0 and removing a bit below
\* the highest occupied one leaves len() unchanged.
LenIsOccupiedSpan ==
    /\ len(bit_tapi_counter) = OccupiedSpan(bit_tapi_counter)
    /\ \A bit \in RegistryBits :
          LET after == remove(bit_tapi_counter, bit)
          IN  /\ OccupiedSlots(bit_tapi_counter) = {bit} => len(after) = 0
              /\ bit + 1 < len(bit_tapi_counter) =>
                    len(after) = len(bit_tapi_counter)

\* the highest occupied slot is removed while a lower, non-adjacent one stays
\* occupied with empty slots around it: len() drops to that slot plus one
RemoveHighestAboveHole ==
    \E bit \in RegistryBits :
        /\ bit < InfoLen
        /\ Occupied(bit)
        /\ bit + 1 = len(bit_tapi_counter)
        /\ OccupiedSlots(bit_tapi_counter) = {1, bit}
        /\ bit > 2
        /\ len(remove(bit_tapi_counter, bit)) = 2

----------------------------------------------------------------------------
(* C14 *)

\* C14: insert of a proposal whose bit is 32 or more and remove of a bit that is
\* 32 or more leave the whole registry (the 32 slots, current_length and
\* last_epoch) as it is.
InvalidBitIsNoOp ==
    /\ \A w \in Wips :
          w.bit >= InfoLen => insert(bit_tapi_counter, w) = bit_tapi_counter
    /\ \A bit \in Bits :
          bit >= InfoLen => remove(bit_tapi_counter, bit) = bit_tapi_counter

\* the registry holds a proposal with votes and a processed epoch when insert
\* and remove are called with bit 32
InvalidBitOnVotedRegistry ==
    /\ \E n \in Slots : Occupied(n) /\ Proposal(n).votes > 0
    /\ LastEpoch > 0
    /\ \E w \in Wips :
          w.bit = InfoLen /\ insert(bit_tapi_counter, w) = bit_tapi_counter
    /\ remove(bit_tapi_counter, InfoLen) = bit_tapi_counter

----------------------------------------------------------------------------
(* C15 *)

\* C15: insert at an occupied bit replaces the occupant: afterwards the slot
\* contains the new name and, when the names differ, not the old one; votes,
\* init, end and period are those of the new proposal; len() is unchanged.
RegisterReplacesOccupant ==
    \A w \in RegistryWips :
        (w.bit < InfoLen /\ Occupied(w.bit)) =>
            LET after == insert(bit_tapi_counter, w)
                old == Proposal(w.bit)
                new == after.info[w.bit][1]
            IN  /\ contains(after, w.bit, w.wip)
                /\ old.wip # w.wip => ~contains(after, w.bit, old.wip)
                /\ new.votes = w.votes
                /\ new.init = w.init
                /\ new.end = w.end
                /\ new.period = w.period
                /\ len(after) = len(bit_tapi_counter)

\* a slot below the highest occupied one holds a proposal and insert brings one
\* of another name, with other votes, window and period, for the same bit
ReplacedByOtherName ==
    \E w \in RegistryWips :
        /\ w.bit < InfoLen
        /\ Occupied(w.bit)
        /\ w.bit + 1 < len(bit_tapi_counter)
        /\ Proposal(w.bit).wip # w.wip
        /\ Proposal(w.bit).votes # w.votes
        /\ Proposal(w.bit).init # w.init
        /\ Proposal(w.bit).end # w.end
        /\ Proposal(w.bit).period # w.period
        /\ insert(bit_tapi_counter, w).info[w.bit] = Some(w)

----------------------------------------------------------------------------
(* C16 *)

\* slot bit of the registry holds a proposal whose window contains epoch
ActiveAt(bit, epoch) ==
    /\ bit < InfoLen
    /\ Occupied(bit)
    /\ Proposal(bit).init <= epoch
    /\ epoch < Proposal(bit).end

\* C16: get(bit, epoch) and get_mut(bit, epoch) return the proposal stored in
\* slot bit if and only if bit < 32, the slot is occupied and init <= epoch <
\* end, and nothing otherwise; both return the same for the same arguments.
GetWithinWindowOnly ==
    \A bit \in RegistryBits, epoch \in RegistryEpochs :
        /\ get(bit_tapi_counter, bit, epoch) =
              IF ActiveAt(bit, epoch) THEN Some(Proposal(bit)) ELSE None
        /\ get_mut(bit_tapi_counter, bit, epoch) =
              get(bit_tapi_counter, bit, epoch)

\* a proposal is returned at its init epoch and at the last epoch of its window,
\* and not at its end epoch nor right before init
GetAtWindowEdges ==
    \E bit \in RegistryBits :
        /\ bit < InfoLen
        /\ Occupied(bit)
        /\ Proposal(bit).init > 0
        /\ Proposal(bit).end \in RegistryEpochs
        /\ get(bit_tapi_counter, bit, Proposal(bit).init) = Some(Proposal(bit))
        /\ get(bit_tapi_counter, bit, Proposal(bit).end - 1) = Some(Proposal(bit))
        /\ get(bit_tapi_counter, bit, Proposal(bit).end) = None
        /\ get(bit_tapi_counter, bit, Proposal(bit).init - 1) = None

----------------------------------------------------------------------------
(* C17 *)

\* the hardcoded proposals in vote processing of an environment
Hardcoded(environment) ==
    { VotingWips(environment)[i][1] :
        i \in {j \in Slots : VotingWips(environment)[j] # None} }

\* those already registered under the same bit and name
Preexisting(environment) ==
    { w \in Hardcoded(environment) :
        Occupied(w.bit) /\ Proposal(w.bit).wip = w.wip }

\* the minimum init of a set of proposals, u32::MAX for the empty set
MinInit(ws) ==
    IF ws = {} THEN U32_MAX
    ELSE CHOOSE m \in {w.init : w \in ws} : \A w \in ws : m <= w.init

\* C17: initialize_wip_information returns (m, P), where P is the set of the
\* hardcoded names already registered under the same bit and name before the
\* call and m is the minimum init among the hardcoded proposals the call
\* registers, u32::MAX when it registers none; on a fresh engine and for Mainnet
\* it returns (500000, {}).
InitializeReturnValue ==
    /\ \A environment \in Environment :
          LET r == initialize_wip_information(Engine, environment)
          IN  /\ r.old_wips = {w.wip : w \in Preexisting(environment)}
              /\ r.min_epoch =
                    MinInit(Hardcoded(environment) \ Preexisting(environment))
    /\ Engine = TapiEngine(BitTapiCounterDefault, EmptyMap) =>
          LET r == initialize_wip_information(Engine, Mainnet)
          IN  r.min_epoch = 500000 /\ r.old_wips = {}

\* the bit of a hardcoded proposal is held by a proposal of another name, with
\* votes: the call registers the hardcoded one and returns its init and no name
HardcodedBitHeldByOtherName ==
    \E environment \in Environment : \E w \in Hardcoded(environment) :
        LET r == initialize_wip_information(Engine, environment)
        IN  /\ Occupied(w.bit)
            /\ Proposal(w.bit).wip # w.wip
            /\ Proposal(w.bit).votes > 0
            /\ r.min_epoch = w.init
            /\ r.min_epoch < U32_MAX
            /\ r.old_wips = {}
            /\ r.engine.bit_tapi_counter.info[w.bit] = Some(w)

----------------------------------------------------------------------------
(* C18 *)

\* C18: initialize_wip_information is idempotent for a fixed environment: a
\* second call with the same environment leaves the engine (registry and
\* activation map) as the first call left it, and returns every hardcoded
\* proposal of the environment as preexisting.
InitializeIdempotent ==
    \A environment \in Environment :
        LET first == initialize_wip_information(Engine, environment)
            second == initialize_wip_information(first.engine, environment)
        IN  /\ second.engine = first.engine
            /\ second.old_wips = {w.wip : w \in Hardcoded(environment)}

\* the first call changes both the registry and the activation map of an engine
\* that holds proposals with votes and a voted activation entry
FirstCallChangesEngine ==
    \E environment \in Environment :
        LET first == initialize_wip_information(Engine, environment)
            second == initialize_wip_information(first.engine, environment)
        IN  /\ \E n \in Slots : Occupied(n) /\ Proposal(n).votes > 0
            /\ DOMAIN wip_activation \ HardcodedNames # {}
            /\ first.engine.bit_tapi_counter # bit_tapi_counter
            /\ first.engine.wip_activation # wip_activation
            /\ first.old_wips = {}
            /\ second.engine = first.engine
            /\ second.old_wips # {}

----------------------------------------------------------------------------
(* C19 *)

\* C19: initialize_wip_information does not touch a preexisting proposal: a
\* proposal registered under the bit and name of a hardcoded one keeps its
\* votes, init, end and period across the call, also when they differ from the
\* hardcoded values of the requested environment.
PreexistingUntouched ==
    \A environment \in Environment :
        \A w \in Preexisting(environment) :
            initialize_wip_information(Engine, environment)
                .engine.bit_tapi_counter.info[w.bit]
            = bit_tapi_counter.info[w.bit]

\* a preexisting proposal holds votes and has another init and period than the
\* hardcoded one of the requested environment
PreexistingDiffersFromHardcoded ==
    \E environment \in Environment :
        \E w \in Preexisting(environment) :
            /\ Proposal(w.bit).votes > 0
            /\ Proposal(w.bit).init # w.init
            /\ Proposal(w.bit).period # w.period
            /\ initialize_wip_information(Engine, environment)
                   .engine.bit_tapi_counter.info[w.bit]
               = bit_tapi_counter.info[w.bit]

----------------------------------------------------------------------------
(* C20 *)

\* the block epochs at which the ActiveWips queries are asked
QueryEpochs == {0, 1, FIRST_HARD_FORK, SECOND_HARD_FORK, U32_MAX - 1}

\* C20: in Testnet and Development, after initialize_wip_information, WIP0008
\* and WIP0009-0011-0012 are active since epoch 0: wip_0008() and
\* wips_0009_0011_0012() return true for every block epoch.
NonMainnetActiveSinceEpochZero ==
    \A environment \in {Testnet, Development}, block_epoch \in QueryEpochs :
        LET after == initialize_wip_information(Engine, environment).engine
            active_wips == ActiveWips(after.wip_activation, block_epoch)
        IN  wip_0008(active_wips) /\ wips_0009_0011_0012(active_wips)

----------------------------------------------------------------------------
(* C21 *)

\* the names in the activation map after initialize_wip_information
KeysAfterInitialize(self, environment) ==
    DOMAIN initialize_wip_information(self, environment).engine.wip_activation

\* C21: after initialize_wip_information on a fresh engine the set of names in
\* the activation map is the same for Mainnet, Testnet and Development (and so
\* it is from any engine the three calls start from).
SameKeysInEveryEnvironment ==
    /\ \A e1 \in Environment, e2 \in Environment :
          KeysAfterInitialize(Engine, e1) = KeysAfterInitialize(Engine, e2)
    /\ \A environment \in Environment :
          KeysAfterInitialize(TapiEngine(BitTapiCounterDefault, EmptyMap),
                              environment) = HardcodedNames

\* the engine holds a voted entry but no hardcoded one: the calls for Mainnet and
\* Testnet add the same two names with different epochs
SameKeysOtherEpochs ==
    LET m == initialize_wip_information(Engine, Mainnet).engine.wip_activation
        t == initialize_wip_information(Engine, Testnet).engine.wip_activation
    IN  /\ DOMAIN wip_activation # {}
        /\ DOMAIN wip_activation \cap HardcodedNames = {}
        /\ DOMAIN m = DOMAIN wip_activation \cup HardcodedNames
        /\ DOMAIN t = DOMAIN m
        /\ \A name \in HardcodedNames : m[name] # t[name]

----------------------------------------------------------------------------
(* C22 *)

\* the names and epochs asked of in_voting_range
RangeNames == {"test0", "test1", "test2", "WIP0014", "WIP0008"}
RangeEpochs == {0, 1, 2, 3, 5200, 500000, U32_MAX - 1, U32_MAX}

\* the engine with every tally set to 0 and an empty activation map
WithoutVotesAndActivation ==
    TapiEngine(
        [bit_tapi_counter EXCEPT
            !.info = [i \in DOMAIN @ |->
                        IF @[i] = None THEN None
                        ELSE Some([@[i][1] EXCEPT !.votes = 0])]],
        EmptyMap)

\* C22: in_voting_range(epoch, name) is true if and only if some occupied slot
\* holds a proposal of that name with init <= epoch < end; the tally of the
\* proposal and the activation map do not matter (the function takes no
\* suppressed set).
InVotingRangeIffNamedWindow ==
    \A epoch \in RangeEpochs, name \in RangeNames :
        /\ in_voting_range(Engine, epoch, name) <=>
              \E n \in Slots :
                  /\ Occupied(n)
                  /\ Proposal(n).wip = name
                  /\ Voting(Proposal(n), epoch)
        /\ in_voting_range(Engine, epoch, name) <=>
              in_voting_range(WithoutVotesAndActivation, epoch, name)

\* an activated proposal is in its voting range while another, holding votes, is
\* past the end of its window
ActivatedStillInRange ==
    \E n \in Slots, k \in Slots, epoch \in RangeEpochs :
        /\ Occupied(n)
        /\ Proposal(n).wip \in DOMAIN wip_activation
        /\ in_voting_range(Engine, epoch, Proposal(n).wip)
        /\ Occupied(k)
        /\ Proposal(k).votes > 0
        /\ epoch = Proposal(k).end
        /\ ~in_voting_range(Engine, epoch, Proposal(k).wip)
        /\ in_voting_range(Engine, epoch - 1, Proposal(k).wip)


----------------------------------------------------------------------------
(* C23: the queries of ActiveWips *)

\* the name each query looks up
QueryName(fn) ==
    CASE fn = "wip_0008" -> "WIP0008"
      [] fn = "wips_0009_0011_0012" -> "WIP0009-0011-0012"
      [] fn = "wip0014" -> "WIP0014"

\* the query fn on the snapshot taken at block_epoch
Query(fn, active_wips, block_epoch) ==
    CASE fn = "wip_0008" -> wip_0008(ActiveWips(active_wips, block_epoch))
      [] fn = "wips_0009_0011_0012" ->
            wips_0009_0011_0012(ActiveWips(active_wips, block_epoch))
      [] fn = "wip0014" -> wip0014(ActiveWips(active_wips, block_epoch))

IsQuery == call.fn \in {"wip_0008", "wips_0009_0011_0012", "wip0014"}

\* C23: a query of ActiveWips answers true exactly when the snapshot has an
\* entry for the name of the query whose activation epoch is at most the block
\* epoch; without an entry it answers false at every block epoch, and once it
\* answers true it answers true at every later block epoch.
QueryIffActivatedByBlockEpoch ==
    IsQuery =>
        LET name == QueryName(call.fn)
        IN  /\ call.result <=>
                  /\ name \in DOMAIN call.active_wips
                  /\ call.active_wips[name] <= call.block_epoch
            /\ name \notin DOMAIN call.active_wips =>
                  \A b \in SnapshotBlockEpochs :
                      ~Query(call.fn, call.active_wips, b)
            /\ call.result =>
                  \A b \in SnapshotBlockEpochs :
                      b >= call.block_epoch =>
                          Query(call.fn, call.active_wips, b)

\* a query answers true at the activation epoch itself, with the entries of
\* the other names not yet active
QueryTrueAtActivationEpoch ==
    /\ call.fn = "wips_0009_0011_0012"
    /\ call.result
    /\ call.active_wips["WIP0009-0011-0012"] = call.block_epoch
    /\ "WIP0008" \in DOMAIN call.active_wips
    /\ call.active_wips["WIP0008"] > call.block_epoch


----------------------------------------------------------------------------
(* C24: the contract of meets_supermajority *)

\* C24: meets_supermajority(votes, committee_size) is true exactly when
\* votes * 3 >= committee_size * 2, for every tally and every committee of at
\* least one member.
SupermajorityIffTwoThirds ==
    (call.fn = "meets_supermajority" /\ call.committee_size > 0) =>
        (call.result <=> call.votes * 3 >= call.committee_size * 2)

\* a tally of exactly two thirds of the committee reaches supermajority
ExactlyTwoThirdsAccepted ==
    /\ call.fn = "meets_supermajority"
    /\ call.votes * 3 = call.committee_size * 2
    /\ call.result

----------------------------------------------------------------------------
(* C25: the smallest tally of a committee of 50 *)

\* C25, as stated: on a committee of 50, 33 is the smallest tally that reaches
\* supermajority.
SmallestTallyOfFiftyIs33 ==
    (call.fn = "meets_supermajority" /\ call.committee_size = 50) =>
        (call.result <=> call.votes >= 33)

\* C25, amended: on a committee of 50, 34 is the smallest tally that reaches
\* supermajority (33 * 3 = 99 < 100 = 50 * 2).
SmallestTallyOfFiftyIs34 ==
    (call.fn = "meets_supermajority" /\ call.committee_size = 50) =>
        (call.result <=> call.votes >= 34)

\* the tally of 34 on a committee of 50 is accepted
ThirtyFourOfFiftyAccepted ==
    /\ call.fn = "meets_supermajority"
    /\ call.committee_size = 50
    /\ call.votes = 34
    /\ call.result


----------------------------------------------------------------------------
(* C26: the committee of magic_partition_3_random *)

NoDuplicates(v) == \A i, j \in DOMAIN v : v[i] = v[j] => i = j

\* the committee has exactly size members, pairwise distinct, all of v
IsCommitteeOf(committee, v, size) ==
    /\ Len(committee) = size
    /\ NoDuplicates(committee)
    /\ \A k \in DOMAIN committee : \E i \in DOMAIN v : committee[k] = v[i]

----------------------------------------------------------------------------
(* C28: a size above the length of the population *)

IsSample == call.fn \in {"magic_partition_2", "magic_partition_3_random"}

\* C28: a sample of a size above the length of the population returns no
\* committee.
NoCommitteeWhenPopulationInsufficient ==
    (IsSample /\ call.size > Len(call.v)) => call.result.panic


----------------------------------------------------------------------------
(* C29: the emergency committee *)

\* the seven signing identities of the first emergency period
EmergencyCommittee ==
    [i \in 1..7 |-> PublicKeyHash(FIRST_EMERGENCY_COMMITTEE[i])]

\* C29: in_emergency_period returns the emergency committee of seven members
\* exactly when the environment is Mainnet and the superblock index is strictly
\* between 750 and 1344, and None otherwise; the committee is the same list at
\* every index of the period.
EmergencyCommitteeIffInsidePeriod ==
    call.fn = "in_emergency_period" =>
        /\ call.result # None <=>
              /\ call.environment = Mainnet
              /\ call.superblock_index > 750
              /\ call.superblock_index < 1344
        /\ call.result # None =>
              /\ Len(call.result[1]) = 7
              /\ call.result[1] = EmergencyCommittee
              /\ \A i \in SuperblockIndices :
                    in_emergency_period(i, Mainnet) # None =>
                        in_emergency_period(i, Mainnet) = call.result

\* the committee is returned at the last index of the period
CommitteeAtLastIndexOfPeriod ==
    /\ call.fn = "in_emergency_period"
    /\ call.environment = Mainnet
    /\ call.superblock_index = 1343
    /\ call.result = Some(EmergencyCommittee)

----------------------------------------------------------------------------
(* C30: the hard-fork gates *)

\* C30: after_first_hard_fork is true exactly on Mainnet from epoch 192000 on,
\* after_second_hard_fork exactly on Mainnet from epoch 376320 on; both are
\* false at every epoch of Testnet and Development.
HardForkGatesIffMainnetPastDate ==
    /\ call.fn = "after_first_hard_fork" =>
          (call.result <=> (call.environment = Mainnet /\ call.epoch >= 192000))
    /\ call.fn = "after_second_hard_fork" =>
          (call.result <=> (call.environment = Mainnet /\ call.epoch >= 376320))
    /\ ( /\ call.fn \in {"after_first_hard_fork", "after_second_hard_fork"}
         /\ call.environment \in {Testnet, Development} ) => ~call.result

\* between the two dates the first gate is open and the second is closed
BetweenTheHardForks ==
    /\ call.fn = "after_second_hard_fork"
    /\ call.environment = Mainnet
    /\ after_first_hard_fork(call.epoch, call.environment)
    /\ ~call.result


----------------------------------------------------------------------------
(* C31: the round trip through the persisted form *)

----------------------------------------------------------------------------
(* C32: an epoch processed again *)

\* the call c processes again the epoch processed last
Replay(c) == c.epoch_to_update = LastEpoch

\* C32, as stated: when update_bit_counter is called again with the epoch
\* processed last, every proposal that is active at that epoch and not
\* activated, and whose bit is set in the bitmap, has its tally incremented.
ReplayIncrementsEverySetBit ==
    \A c \in UpdateCalls, n \in Slots :
        ( /\ Replay(c)
          /\ Occupied(n)
          /\ Voting(Proposal(n), c.epoch_to_update)
          /\ Proposal(n).wip \notin DOMAIN wip_activation
          /\ BitSet(c.v, n) ) =>
            Updated(c).bit_tapi_counter.info[n][1].votes = Proposal(n).votes + 1

\* C32, amended: the same for a proposal that the call does not suppress, at an
\* epoch that is not a period boundary of the proposal; at a period boundary
\* the incremented tally is evaluated and the tally is 0 after the call, and a
\* suppressed proposal keeps its tally.
ReplayIncrementsUnlessBoundaryOrSuppressed ==
    \A c \in UpdateCalls, n \in Slots :
        ( /\ Replay(c)
          /\ Occupied(n)
          /\ Voting(Proposal(n), c.epoch_to_update)
          /\ Proposal(n).wip \notin DOMAIN wip_activation
          /\ BitSet(c.v, n) ) =>
            Updated(c).bit_tapi_counter.info[n][1].votes =
                IF Proposal(n).wip \in c.avoid_wip_list THEN Proposal(n).votes
                ELSE IF Boundary(Proposal(n), c.epoch_to_update) THEN 0
                ELSE Proposal(n).votes + 1

\* an epoch after the first is processed again with a yes-vote for a proposal
\* that already holds a vote, and the tally grows once more
ReplayCountsTwice ==
    \E c \in UpdateCalls, n \in Slots :
        /\ Replay(c)
        /\ LastEpoch > 0
        /\ Occupied(n)
        /\ Voting(Proposal(n), c.epoch_to_update)
        /\ Proposal(n).wip \notin DOMAIN wip_activation
        /\ BitSet(c.v, n)
        /\ Proposal(n).votes >= 1
        /\ Updated(c).bit_tapi_counter.info[n][1].votes = Proposal(n).votes + 1


----------------------------------------------------------------------------
(* C33: the order of the steps at a period boundary *)

\* the engine after the block of epoch e with bitmap v, as InOrderUpdate feeds it
InOrderUpdated(v, e) == update_bit_counter(Engine, v, e, e, {})

\* C33: in a block stream processed in order, at a period boundary of a
\* proposal that is active and not activated the vote of the block is added
\* before the tally is evaluated and reset: the tally is 0 after the call (the
\* vote does not open the next period), the activation entry is written exactly
\* when the tally with the vote of the block reaches 80% (stated for the calls
\* that backfill nothing), and at epoch = init the tally evaluated is at most 1.
BoundaryVoteClosesThePeriod ==
    \A v \in InOrderBitmaps, e \in InOrderEpochs, n \in Slots :
        ( /\ e > LastEpoch
          /\ Occupied(n)
          /\ Voting(Proposal(n), e)
          /\ Proposal(n).wip \notin DOMAIN wip_activation
          /\ Boundary(Proposal(n), e) ) =>
            LET after == InOrderUpdated(v, e)
                tally == Proposal(n).votes + (IF BitSet(v, n) THEN 1 ELSE 0)
            IN  /\ after.bit_tapi_counter.info[n][1].votes = 0
                /\ (LastEpoch = 0 \/ e = LastEpoch + 1) =>
                      ( Proposal(n).wip \in DOMAIN after.wip_activation
                          <=> EightyPercent(tally, Proposal(n).period) )
                /\ e = Proposal(n).init => tally <= 1

\* the vote of the block at the boundary is the one that brings the tally of
\* the ending period to 80%
BoundaryVoteDecides ==
    \E v \in InOrderBitmaps, e \in InOrderEpochs, n \in Slots :
        /\ e = LastEpoch + 1
        /\ Occupied(n)
        /\ Voting(Proposal(n), e)
        /\ Proposal(n).wip \notin DOMAIN wip_activation
        /\ Boundary(Proposal(n), e)
        /\ BitSet(v, n)
        /\ ~EightyPercent(Proposal(n).votes, Proposal(n).period)
        /\ Proposal(n).wip \in DOMAIN InOrderUpdated(v, e).wip_activation
        /\ InOrderUpdated(v, e).bit_tapi_counter.info[n][1].votes = 0


----------------------------------------------------------------------------
(* C34: the bound of the tally *)

\* C34, as stated: under calls with strictly increasing epochs, with any
\* bitmap and any avoid_wip_list in each call, the votes of a proposal
\* registered with no votes never exceed its period.
TallyWithinPeriod ==
    \A n \in Slots : Occupied(n) => Proposal(n).votes <= Proposal(n).period

\* every call so far was given the same avoid_wip_list
SameAvoidListSoFar == \A e1, e2 \in DOMAIN log : log[e1] = log[e2]

\* C34, amended: the same when every call is given the same avoid_wip_list.
TallyWithinPeriodUnderOneAvoidList ==
    SameAvoidListSoFar =>
        \A n \in Slots : Occupied(n) => Proposal(n).votes <= Proposal(n).period

\* after a gap that crosses a period boundary, under one avoid_wip_list, a
\* proposal holds a tally one below its period
TallyFullAfterGap ==
    /\ SameAvoidListSoFar
    /\ \E e \in DOMAIN log : e > 0 /\ e + 1 \in IncreasingEpochs \ DOMAIN log
                             /\ \E e2 \in DOMAIN log : e2 > e + 1
    /\ \E n \in Slots :
          /\ Occupied(n)
          /\ Proposal(n).votes = Proposal(n).period - 1
          /\ Proposal(n).votes > 0
          /\ LastEpoch > Proposal(n).init + Proposal(n).period


----------------------------------------------------------------------------
(* C35: the calls of the backfill *)

\* the calls the call c makes from the current engine
CallsOf(c) ==
    update_bit_counter_calls(Engine, c.v, c.epoch_to_update, c.block_epoch,
                             c.avoid_wip_list, 0)

\* C35: a call that fills a gap processes every skipped epoch once, in
\* increasing order, with bitmap 0 and its own block_epoch and avoid_wip_list,
\* by calls at depth 1 that backfill nothing themselves, and then its own
\* epoch; a call on an engine with last_epoch = 0, or without a gap, makes no
\* other call.
BackfillCallsInOrderAtDepthOne ==
    \A c \in UpdateCalls :
        LET calls == CallsOf(c)
            first == IF HasGap(c) THEN LastEpoch + 1 ELSE c.epoch_to_update
            gap == c.epoch_to_update - first
        IN  /\ Len(calls) = gap + 1
            /\ calls[gap + 1] = [v |-> c.v, epoch_to_update |-> c.epoch_to_update,
                                 block_epoch |-> c.block_epoch,
                                 avoid_wip_list |-> c.avoid_wip_list, depth |-> 0]
            /\ \A k \in 1..gap :
                  calls[k] = [v |-> 0, epoch_to_update |-> first + k - 1,
                              block_epoch |-> c.block_epoch,
                              avoid_wip_list |-> c.avoid_wip_list, depth |-> 1]
            /\ LastEpoch = 0 => Len(calls) = 1

\* a call with a yes-vote, a suppressed name and the block epoch of another
\* block skips at least two epochs
GapOfTwoEpochs ==
    \E c \in UpdateCalls :
        /\ HasGap(c)
        /\ c.v # 0
        /\ c.avoid_wip_list # {}
        /\ c.block_epoch # c.epoch_to_update
        /\ Len(CallsOf(c)) >= 3


----------------------------------------------------------------------------
(* C36: the deferred effect of an activation *)

\* the block epochs asked of the view after a call with block epoch b
ViewEpochs(b) == {0} \cup b..(b + 23) \cup {U32_MAX}

\* C36: when a call of update_bit_counter with block epoch b writes the
\* activation entry of WIP0014, the view of the resulting activation map
\* reports it inactive at every block epoch up to b + 20 and active at every
\* block epoch from b + 21 on; and no later call changes the entry.
ActivationTakesEffect21EpochsLater ==
    \A c \in VotedCalls :
        LET after == Updated(c).wip_activation
        IN  /\ ( /\ "WIP0014" \notin DOMAIN wip_activation
                 /\ "WIP0014" \in DOMAIN after ) =>
                    \A q \in ViewEpochs(c.block_epoch) :
                        wip0014(ActiveWips(after, q)) <=> q >= c.block_epoch + 21
            /\ "WIP0014" \in DOMAIN wip_activation =>
                    /\ "WIP0014" \in DOMAIN after
                    /\ \A q \in ViewEpochs(c.block_epoch) :
                          wip0014(ActiveWips(after, q))
                              <=> wip0014(ActiveWips(wip_activation, q))

\* a call whose block epoch is not the epoch it updates writes the entry while
\* filling a gap
EntryWrittenAcrossGap ==
    \E c \in VotedCalls :
        /\ HasGap(c)
        /\ c.block_epoch > c.epoch_to_update
        /\ "WIP0014" \notin DOMAIN wip_activation
        /\ "WIP0014" \in DOMAIN Updated(c).wip_activation
        /\ ~wip0014(ActiveWips(Updated(c).wip_activation, c.block_epoch))


----------------------------------------------------------------------------
(* C37: the frame of update_bit_counter *)

\* the proposal p with the tally of q
WithVotesOf(p, q) == [p EXCEPT !.votes = q.votes]

\* C37: update_bit_counter leaves the occupied slots occupied and the empty
\* ones empty, leaves current_length and the name, bit, init, end and period
\* of every proposal as they are, and removes no entry of the activation map:
\* only tallies, last_epoch and new activation entries change.
UpdateFrame ==
    \A c \in AnyCalls :
        (GapWithin(c) /\ ~Aborts(c)) =>
            LET after == Updated(c)
            IN  /\ after.bit_tapi_counter.current_length =
                      bit_tapi_counter.current_length
                /\ \A n \in Slots :
                      IF Occupied(n)
                      THEN /\ after.bit_tapi_counter.info[n] # None
                           /\ WithVotesOf(after.bit_tapi_counter.info[n][1],
                                          Proposal(n)) = Proposal(n)
                      ELSE after.bit_tapi_counter.info[n] = None
                /\ DOMAIN after.bit_tapi_counter =
                      {"info", "last_epoch", "current_length"}
                /\ DOMAIN wip_activation \subseteq DOMAIN after.wip_activation

\* a call on an engine that holds activation entries changes a tally and
\* last_epoch and adds an activation entry
UpdateChangesAllItMay ==
    \E c \in AnyCalls :
        /\ GapWithin(c) /\ ~Aborts(c)
        /\ DOMAIN wip_activation # {}
        /\ DOMAIN Updated(c).wip_activation # DOMAIN wip_activation
        /\ Updated(c).bit_tapi_counter.last_epoch # LastEpoch
        /\ \E n \in Slots :
              /\ Occupied(n)
              /\ Updated(c).bit_tapi_counter.info[n][1].votes # Proposal(n).votes


----------------------------------------------------------------------------
(* C38: the registry after initialize_wip_information *)

\* the registry after initialize_wip_information(environment)
Initialized(environment) ==
    initialize_wip_information(Engine, environment).engine.bit_tapi_counter

\* C38: after initialize_wip_information every bit without a hardcoded
\* proposal in the table of the environment is empty, every bit with one holds
\* a proposal of the hardcoded name (the proposal of the table when the bit was
\* empty or held another name, the occupant as it was when it had that name),
\* and current_length is 1.
OnlyHardcodedAfterInitialize ==
    \A environment \in Environment :
        LET after == Initialized(environment)
        IN  /\ \A n \in Slots :
                  IF \E w \in Hardcoded(environment) : w.bit = n
                  THEN \E w \in Hardcoded(environment) :
                          /\ w.bit = n
                          /\ after.info[n] # None
                          /\ after.info[n][1].wip = w.wip
                          /\ after.info[n] =
                                IF Occupied(n) /\ Proposal(n).wip = w.wip
                                THEN bit_tapi_counter.info[n]
                                ELSE Some(w)
                  ELSE after.info[n] = None
            /\ after.current_length = 1
            /\ \A n \in Slots : after.info[n] # None => n = 0

\* proposals with votes sit at a bit without a hardcoded proposal and, under
\* another name, at the hardcoded bit: the call removes the one and replaces
\* the other
OthersRegisteredBeforeInitialize ==
    \E environment \in Environment :
        /\ Occupied(0)
        /\ Proposal(0).wip # "WIP0014"
        /\ \E n \in Slots : n > 0 /\ Occupied(n) /\ Proposal(n).votes > 0
        /\ bit_tapi_counter.current_length > 2
        /\ Initialized(environment).info[0][1].wip = "WIP0014"
        /\ Initialized(environment).current_length = 1


----------------------------------------------------------------------------
(* C39: the stride partition *)

\* the 0-based indices of the k-th window (k from 0) of length each, starting
\* at first and wrapping around a slice of length length
Window(first, each, length, k) ==
    { (first + k * each + j) % length : j \in 0..(each - 1) }

\* C39: for 1 <= size <= len(v), first < len(v) and a non-empty
\* rand_distribution, magic_partition_2 returns size elements, the k-th of them
\* taken at an index of the k-th of size consecutive windows of length
\* len(v) / size starting at first and wrapping around; the windows are pairwise
\* disjoint, so the indices are pairwise distinct, and so are the elements when
\* those of v are.  For v = [0..5], first = 3, size = 3 and r = [1] the indices
\* are 4, 0, 2.  For first >= len(v) the result is the empty list.
StridePartitionPicksOnePerWindow ==
    call.fn = "magic_partition_2" =>
        LET length == Len(call.v)
            each == length \div call.size
        IN  /\ ( /\ 1 <= call.size /\ call.size <= length
                 /\ call.first < length
                 /\ Len(call.rand_distribution) > 0 ) =>
                    /\ ~call.result.panic
                    /\ Len(call.result.value) = call.size
                    /\ \A k \in 1..call.size :
                          \E i \in Window(call.first, each, length, k - 1) :
                              call.result.value[k] = call.v[i + 1]
                    /\ \A k1, k2 \in 1..call.size :
                          k1 # k2 =>
                              Window(call.first, each, length, k1 - 1)
                                  \cap Window(call.first, each, length, k2 - 1) = {}
                    /\ NoDuplicates(call.v) => NoDuplicates(call.result.value)
            /\ ( /\ call.v = <<0, 1, 2, 3, 4, 5>> /\ call.first = 3
                 /\ call.size = 3 /\ call.rand_distribution = <<1>> ) =>
                    call.result = Ok(<<4, 0, 2>>)
            /\ call.first >= length => call.result = Ok(<<>>)

\* the call of the comment above magic_partition_2
StridePartitionOfTheComment ==
    /\ call.fn = "magic_partition_2"
    /\ call.v = <<0, 1, 2, 3, 4, 5>>
    /\ call.first = 3
    /\ call.size = 3
    /\ call.rand_distribution = <<1>>
    /\ call.result = Ok(<<4, 0, 2>>)

====
